---- MODULE Spec2Model ----
(***************************************************************************)
(* A model of the zoologix React front end: the Pagination component, the  *)
(* URL query-state codec of the list views, the species / habitats /       *)
(* species-within-habitat list views, and the create-resource form.        *)
(*                                                                         *)
(* Strings the code inspects character by character (query strings, search *)
(* terms, form values) are sequences of one-character strings.             *)
(***************************************************************************)
EXTENDS Integers, Sequences, FiniteSets, TLC

VARIABLES
    \* ---- the Pagination component, rendered on its own
    props,          \* the props of the last render: page, totalPages, visiblePages
    items,          \* the <li> items of the last render, in order
    requested,      \* the arguments of the last onPageChange call (<<>>: none yet)
    \* ---- the URL query-state codec, applied on its own
    codecView,      \* whose updateURL is applied: "species" or "habitats"
    pageState,      \* the PageState handed to updateURL
    queryString,    \* <<the string handed to navigate>> once updateURL has run
    decoded,        \* <<what the useEffect reads back from location.search>>
    \* ---- a mounted list view: Species, Habitats or SubCollection
    view,           \* the component mounted: "species", "habitats" or "sub"
    search,         \* location.search
    effectPending,  \* the useEffect on [location.search] is due to run
    page,           \* useState: page
    pageSize,       \* useState: pageSize
    totalPages,     \* useState: totalPages
    searchName,     \* useState: searchName (Species, Habitats)
    filter,         \* useState: filter (Species, Habitats)
    list,           \* useState: speciesList / habitatsList, the rows shown
    selectedHabitatId,  \* useState: selectedHabitatId (SubCollection)
    habitatsId,     \* useState: habitatsId, the options of the select (SubCollection)
    inflight,       \* the api.get calls awaited, each with what its caller resumes with
    swal,           \* the dialog of the last Swal.fire
    event,          \* the callback that ran last, with its argument
    userActions,    \* how many times the user has acted on the view
    \* ---- the mounted create-resource form
    resourceType,   \* useState: resourceType
    formData,       \* useState: formData, an object of field name to string
    errors,         \* useState: errors, an object of field name to message
    dietsIds,       \* useState: dietsIds
    habitatIds,     \* useState: habitatIds
    classificationIds,  \* useState: classificationIds
    createEffectPending,  \* the useEffect on [resourceType] is due to run
    dropdownFetches,  \* the calls of fetchDropdownData that have not ended
    posts,          \* the api.post calls awaited
    createSwal,     \* the dialog of the last Swal.fire of the form
    createEvent,    \* the callback of the form that ran last
    formActions,    \* how many times the user has edited, switched or submitted
    populated,      \* history: a fetchDropdownData has set the three lists
    \* ---- the mounted delete tool
    delType,        \* useState: resourceType of DeleteResource
    resourceId,     \* useState: resourceId, the ids offered
    selectedId,     \* useState: selectedId
    delEffectPending,  \* the useEffect on [resourceType] is due to run
    enumerations,   \* the calls of fetchIds that have not ended
    prompt,         \* the confirmation prompt awaited by a handleDelete, if any
    deletes,        \* the api.delete calls awaited
    delSwal,        \* the dialog of the last Swal.fire of the tool
    delEvent,       \* the callback of the tool that ran last, and the dialogs it fired
    delActions,     \* how many times the user has acted on the tool
    \* ---- one drain of a paginated collection, with its history
    drainCall,      \* the call of fetchAllIds or fetchIds: caller, endpoint, loop state
    drainAsked,     \* the pages it has requested, in the order of the requests
    drainAnswered   \* the responses it has received, in the order received

pagVars == <<props, items, requested>>

codecVars == <<codecView, pageState, queryString, decoded>>

listVars == <<view, search, effectPending, page, pageSize, totalPages, searchName,
              filter, list, selectedHabitatId, habitatsId, inflight, swal, event,
              userActions>>

createVars == <<resourceType, formData, errors, dietsIds, habitatIds, classificationIds,
                createEffectPending, dropdownFetches, posts, createSwal, createEvent,
                formActions, populated>>

deleteVars == <<delType, resourceId, selectedId, delEffectPending, enumerations, prompt,
                deletes, delSwal, delEvent, delActions>>

drainVars == <<drainCall, drainAsked, drainAnswered>>

vars == <<props, items, requested, codecView, pageState, queryString, decoded,
          view, search, effectPending, page, pageSize, totalPages, searchName,
          filter, list, selectedHabitatId, habitatsId, inflight, swal, event,
          userActions,
          resourceType, formData, errors, dietsIds, habitatIds, classificationIds,
          createEffectPending, dropdownFetches, posts, createSwal, createEvent,
          formActions, populated,
          delType, resourceId, selectedId, delEffectPending, enumerations, prompt,
          deletes, delSwal, delEvent, delActions,
          drainCall, drainAsked, drainAnswered>>

\* What the steps of one component leave alone: the other components.
notPag == <<codecVars, listVars, createVars, deleteVars, drainVars>>

notCodec == <<pagVars, listVars, createVars, deleteVars, drainVars>>

notList == <<pagVars, codecVars, createVars, deleteVars, drainVars>>

notCreate == <<pagVars, codecVars, listVars, deleteVars, drainVars>>

notDelete == <<pagVars, codecVars, listVars, createVars, drainVars>>

notDrain == <<pagVars, codecVars, listVars, createVars, deleteVars>>

\* ------------------------------------------------------------------ bounds

MaxPage == 7
MaxTotalPages == 6
MaxVisiblePages == 6
MaxCodecPage == 11
MaxNameLen == 2
MaxInFlight == 2
MaxUserActions == 3
MaxFormActions == 2
MaxPosts == 1
MaxDropdownFetches == 1
MaxDeleteActions == 3
MaxEnumerations == 2
MaxDeletes == 1
MaxRows == 1
MaxServerPages == 2
MaxDrainPages == 3

\* ----------------------------------------------------------------- helpers

Max(a, b) == IF a >= b THEN a ELSE b

Min(a, b) == IF a <= b THEN a ELSE b

\* ------------------------------------------------- the Pagination component

\* The window as the code leaves it if it never recomputes startPage after
\* clamping endPage.
PageWindowNoRestart(pg, total, visiblePages) ==
    LET startPage == Max(1, pg - (visiblePages \div 2))
        endPage == startPage + visiblePages - 1
    IN  [startPage |-> startPage, endPage |-> Min(endPage, total)]

\* The window with the current page at its right edge instead of centred.
PageWindowOffCentre(pg, total, visiblePages) ==
    LET startPage == Max(1, pg - visiblePages)
        endPage == startPage + visiblePages - 1
    IN  IF endPage > total
        THEN [startPage |-> Max(1, total - visiblePages + 1), endPage |-> total]
        ELSE [startPage |-> startPage, endPage |-> endPage]

\* The window without the clamp to totalPages.
PageWindowNoClamp(pg, total, visiblePages) ==
    LET startPage == Max(1, pg - (visiblePages \div 2))
    IN  [startPage |-> startPage, endPage |-> startPage + visiblePages - 1]

\* startPage and endPage of the numbered buttons.
PageWindow(pg, total, visiblePages) ==
    LET startPage == Max(1, pg - (visiblePages \div 2))
        endPage == startPage + visiblePages - 1
    IN  IF endPage > total
        THEN [startPage |-> Max(1, total - visiblePages + 1), endPage |-> total]
        ELSE [startPage |-> startPage, endPage |-> endPage]

\* An item: its React key, its label (0 for Previous and Next), whether it
\* carries the 'active' class, and the page its onClick hands to onPageChange.
Item(key, label, active, onClick) ==
    [key |-> key, label |-> label, active |-> active, onClick |-> onClick]

\* A Previous button that also shows on the first page.
PreviousItemsFromFirst(pg) ==
    IF pg >= 1 THEN <<Item("prev", 0, FALSE, pg - 1)>> ELSE <<>>

PreviousItems(pg) ==
    IF pg > 1 THEN <<Item("prev", 0, FALSE, pg - 1)>> ELSE <<>>

NumberItems(pg, startPage, endPage) ==
    [k \in 1..Max(0, endPage - startPage + 1) |->
        LET i == startPage + k - 1 IN Item("num", i, pg = i, i)]

\* A Next button that also shows on the last page.
NextItemsOnLast(pg, total) ==
    IF pg <= total THEN <<Item("next", 0, FALSE, pg + 1)>> ELSE <<>>

NextItems(pg, total) ==
    IF pg < total THEN <<Item("next", 0, FALSE, pg + 1)>> ELSE <<>>

Pagination(pg, total, visiblePages) ==
    LET w == PageWindow(pg, total, visiblePages)
    IN  PreviousItems(pg)
        \o NumberItems(pg, w.startPage, w.endPage)
        \o NextItems(pg, total)

\* What a render shows, read off the items.
Labels(its) ==
    LET nums == SelectSeq(its, LAMBDA it : it.key = "num")
    IN  [k \in 1..Len(nums) |-> nums[k].label]

HasKey(its, key) == \E k \in 1..Len(its) : its[k].key = key

\* ---- the component on its own: any props, any click

PageInputs == (1 - MaxPage)..MaxPage

PagInit ==
    /\ props = [page |-> 1, totalPages |-> 1, visiblePages |-> 5]
    /\ items = Pagination(1, 1, 5)
    /\ requested = <<>>

\* The component is not mounted.
PagOff ==
    /\ props = [page |-> 1, totalPages |-> 1, visiblePages |-> 5]
    /\ items = <<>>
    /\ requested = <<>>

Render ==
    \E p \in PageInputs, tp \in 1..MaxTotalPages, vp \in 1..MaxVisiblePages :
        /\ props' = [page |-> p, totalPages |-> tp, visiblePages |-> vp]
        /\ items' = Pagination(p, tp, vp)
        /\ requested' = <<>>
        /\ UNCHANGED notPag

\* A click on the k-th item calls onPageChange with the page the item closes over.
Click ==
    \E k \in 1..Len(items) :
        /\ requested' = <<items[k].onClick>>
        /\ UNCHANGED <<props, items>>
        /\ UNCHANGED notPag

PagNext == Render \/ Click

\* ------------------------------------------------------------------ strings

\* The printable ASCII characters, Ascii[k] having code 31 + k (the grave
\* accent, which a string of this language cannot hold, by its code point).
Ascii ==
    <<" ", "!", "\"", "#", "$", "%", "&", "'", "(", ")", "*", "+",
       ",", "-", ".", "/", "0", "1", "2", "3", "4", "5", "6", "7",
       "8", "9", ":", ";", "<", "=", ">", "?", "@", "A", "B", "C",
       "D", "E", "F", "G", "H", "I", "J", "K", "L", "M", "N", "O",
       "P", "Q", "R", "S", "T", "U", "V", "W", "X", "Y", "Z", "[",
       "\\", "]", "^", "_", "U+0060", "a", "b", "c", "d", "e", "f", "g",
       "h", "i", "j", "k", "l", "m", "n", "o", "p", "q", "r", "s",
       "t", "u", "v", "w", "x", "y", "z", "{", "|", "}", "~">>

\* A character the model has no code for (a control character, a character
\* beyond ASCII).
Unknown == "U+FFFD"

HexDigits == <<"0", "1", "2", "3", "4", "5", "6", "7", "8", "9",
               "A", "B", "C", "D", "E", "F">>

\* The first place of c in seq, 0 when it has none.
IndexOf(c, seq) ==
    LET hits == {k \in 1..Len(seq) : seq[k] = c}
    IN  IF hits = {} THEN 0 ELSE CHOOSE k \in hits : \A j \in hits : k <= j

CharCodes == [c \in {Ascii[k] : k \in 1..Len(Ascii)} |->
                 31 + (CHOOSE k \in 1..Len(Ascii) : Ascii[k] = c)]

CharCode(c) == IF c \in DOMAIN CharCodes THEN CharCodes[c] ELSE 0

FromCharCode(n) == IF n \in 32..126 THEN Ascii[n - 31] ELSE Unknown

IsDigit(c) == CharCode(c) \in 48..57

IsUpper(c) == CharCode(c) \in 65..90

IsLower(c) == CharCode(c) \in 97..122

IsAlnum(c) == IsDigit(c) \/ IsUpper(c) \/ IsLower(c)

\* White space (the regular expression class and what trim() removes), among
\* the characters modelled.
IsSpace(c) == c = " "

\* The value of a hexadecimal digit of either case, -1 for any other character.
HexVal(c) ==
    IF IsDigit(c) THEN CharCode(c) - 48
    ELSE IF CharCode(c) \in 65..70 THEN CharCode(c) - 55
    ELSE IF CharCode(c) \in 97..102 THEN CharCode(c) - 87
    ELSE -1

RECURSIVE Concat(_)
Concat(seqs) == IF seqs = <<>> THEN <<>> ELSE Head(seqs) \o Concat(Tail(seqs))

\* String.prototype.trim
RECURSIVE TrimStart(_)
TrimStart(str) ==
    IF str # <<>> /\ IsSpace(Head(str)) THEN TrimStart(Tail(str)) ELSE str

RECURSIVE TrimEnd(_)
TrimEnd(str) ==
    IF str # <<>> /\ IsSpace(str[Len(str)])
    THEN TrimEnd(SubSeq(str, 1, Len(str) - 1))
    ELSE str

Trim(str) == TrimEnd(TrimStart(str))

\* String(n) of an integer.
RECURSIVE NatToString(_)
NatToString(n) ==
    IF n < 10 THEN <<FromCharCode(48 + n)>>
    ELSE NatToString(n \div 10) \o <<FromCharCode(48 + (n % 10))>>

String(n) == IF n < 0 THEN <<"-">> \o NatToString(0 - n) ELSE NatToString(n)

\* The value of the longest run of decimal digits that starts str, given the
\* value acc of the digits read so far.
RECURSIVE DigitsValue(_, _)
DigitsValue(str, acc) ==
    IF str # <<>> /\ IsDigit(Head(str))
    THEN DigitsValue(Tail(str), 10 * acc + (CharCode(Head(str)) - 48))
    ELSE acc

\* A parseInt that gives NaN unless the whole string is decimal digits.
parseIntStrict(x) ==
    IF x = <<>> \/ x[1] = <<>> \/ \E k \in 1..Len(x[1]) : ~IsDigit(x[1][k])
    THEN [isNaN |-> TRUE, value |-> 0]
    ELSE [isNaN |-> FALSE, value |-> DigitsValue(x[1], 0)]

\* parseInt(x) for x = <<>> (null) or <<a string>>: leading white space, an
\* optional sign, then decimal digits up to the first other character; NaN when
\* there is no digit (parseInt(null) reads the string "null").
parseInt(x) ==
    LET str == IF x = <<>> THEN <<"n", "u", "l", "l">> ELSE TrimStart(x[1])
        signed == str # <<>> /\ Head(str) \in {"-", "+"}
        body == IF signed THEN Tail(str) ELSE str
        value == DigitsValue(body, 0)
    IN  IF body = <<>> \/ ~IsDigit(Head(body))
        THEN [isNaN |-> TRUE, value |-> 0]
        ELSE [isNaN |-> FALSE,
              value |-> IF signed /\ Head(str) = "-" THEN 0 - value ELSE value]

\* n || d for a number n: NaN and 0 are falsy.
NumberOr(n, d) == IF n.isNaN \/ n.value = 0 THEN d ELSE n.value

\* x || '' for x = <<>> (null) or <<a string>>.
StringOr(x) == IF x = <<>> THEN <<>> ELSE x[1]

\* ------------------------------------------------------ URLSearchParams

\* A URLSearchParams object is its list of <<name, value>> pairs.

\* A serializer that leaves every character but the space as it is.
SerializeCharRaw(c) == IF c = " " THEN <<"+">> ELSE <<c>>

\* The application/x-www-form-urlencoded serializer, one character: letters,
\* digits and * - . _ stay, a space becomes +, anything else is percent-encoded.
SerializeChar(c) ==
    IF c = " " THEN <<"+">>
    ELSE IF IsAlnum(c) \/ c \in {"*", "-", ".", "_"} THEN <<c>>
    ELSE <<"%", HexDigits[(CharCode(c) \div 16) + 1], HexDigits[(CharCode(c) % 16) + 1]>>

Serialize(str) == Concat([k \in 1..Len(str) |-> SerializeChar(str[k])])

\* URLSearchParams.prototype.toString
RECURSIVE toString(_)
toString(params) ==
    IF params = <<>> THEN <<>>
    ELSE Serialize(params[1][1]) \o <<"=">> \o Serialize(params[1][2])
         \o (IF Len(params) > 1 THEN <<"&">> ELSE <<>>)
         \o toString(Tail(params))

\* URLSearchParams.prototype.set: the first pair of that name takes the value
\* and the others go; a new name is appended.
set(params, name, value) ==
    LET first == IndexOf(name, [k \in 1..Len(params) |-> params[k][1]])
    IN  IF first = 0 THEN Append(params, <<name, value>>)
        ELSE SubSeq(params, 1, first - 1) \o << <<name, value>> >>
             \o SelectSeq(SubSeq(params, first + 1, Len(params)),
                          LAMBDA pair : pair[1] # name)

\* URLSearchParams.prototype.get: <<>> for null, else <<the first value>>.
get(params, name) ==
    LET first == IndexOf(name, [k \in 1..Len(params) |-> params[k][1]])
    IN  IF first = 0 THEN <<>> ELSE <<params[first][2]>>

\* The pieces of str between occurrences of sep.
RECURSIVE Split(_, _)
Split(str, sep) ==
    LET at == IndexOf(sep, str)
    IN  IF at = 0 THEN <<str>>
        ELSE <<SubSeq(str, 1, at - 1)>> \o Split(SubSeq(str, at + 1, Len(str)), sep)

\* Percent-decoding after + has become a space: %XY with two hexadecimal digits
\* is the character of that code, any other % stays.
RECURSIVE PercentDecode(_)
PercentDecode(str) ==
    IF str = <<>> THEN <<>>
    ELSE IF /\ Head(str) = "%"
            /\ Len(str) >= 3
            /\ HexVal(str[2]) >= 0
            /\ HexVal(str[3]) >= 0
         THEN <<FromCharCode(16 * HexVal(str[2]) + HexVal(str[3]))>>
              \o PercentDecode(SubSeq(str, 4, Len(str)))
         ELSE <<IF Head(str) = "+" THEN " " ELSE Head(str)>> \o PercentDecode(Tail(str))

\* The pair of one piece of a query: its name up to the first =, its value after.
ParsePair(piece) ==
    LET at == IndexOf("=", piece)
    IN  IF at = 0 THEN <<PercentDecode(piece), <<>>>>
        ELSE <<PercentDecode(SubSeq(piece, 1, at - 1)),
               PercentDecode(SubSeq(piece, at + 1, Len(piece)))>>

\* new URLSearchParams(str): a leading ? is dropped, empty pieces are skipped.
URLSearchParams(str) ==
    LET query == IF str # <<>> /\ Head(str) = "?" THEN Tail(str) ELSE str
        pieces == SelectSeq(Split(query, "&"), LAMBDA piece : piece # <<>>)
    IN  [k \in 1..Len(pieces) |-> ParsePair(pieces[k])]

\* ------------------------------------------- the codec of the list views

K_page == <<"p", "a", "g", "e">>
K_pageSize == <<"p", "a", "g", "e", "S", "i", "z", "e">>
K_name == <<"n", "a", "m", "e">>
K_filter == <<"f", "i", "l", "t", "e", "r">>

\* A missing property of the object handed to updateURL is the empty string
\* here: both are falsy, and updateURL only tests them.
ParamObj(name, filterBy, pg, size) ==
    [name |-> name, filter |-> filterBy, page |-> pg, pageSize |-> size]

\* updateURL of Habitats: the string it hands to navigate.
updateURL_habitats(paramObj) ==
    LET p0 == <<>>
        p1 == IF paramObj.filter # <<>> THEN set(p0, K_filter, paramObj.filter) ELSE p0
        p2 == IF paramObj.name # <<>> THEN set(p1, K_name, paramObj.name) ELSE p1
        p3 == set(p2, K_page, String(paramObj.page))
        p4 == set(p3, K_pageSize, String(paramObj.pageSize))
    IN  <<"?">> \o toString(p4)

\* updateURL of Species: the string it hands to navigate.
updateURL_species(paramsObj) ==
    LET p0 == <<>>
        p1 == IF paramsObj.name # <<>> THEN set(p0, K_name, paramsObj.name) ELSE p0
        p2 == IF paramsObj.filter # <<>> THEN set(p1, K_filter, paramsObj.filter) ELSE p1
        p3 == set(p2, K_page, String(paramsObj.page))
        p4 == set(p3, K_pageSize, String(paramsObj.pageSize))
    IN  <<"?">> \o toString(p4)

updateURL(component, paramObj) ==
    IF component = "habitats" THEN updateURL_habitats(paramObj) ELSE updateURL_species(paramObj)

\* What the useEffect of Species and of Habitats reads from location.search.
DecodeSearch(query) ==
    LET params == URLSearchParams(query)
    IN  [page |-> NumberOr(parseInt(get(params, K_page)), 1),
         pageSize |-> NumberOr(parseInt(get(params, K_pageSize)), 5),
         name |-> StringOr(get(params, K_name)),
         filter |-> StringOr(get(params, K_filter))]

\* ---- the codec on its own: any valid PageState, encoded, then decoded

\* Characters of a search term: a letter, a digit, white space, the hyphen and
\* the apostrophe, and the characters a query string gives a meaning to.
CodecChars == {"a", "7", " ", "'", "&", "=", "+", "%"}

RECURSIVE StringsUpTo(_, _)
StringsUpTo(chars, n) ==
    IF n = 0 THEN {<<>>}
    ELSE LET shorter == StringsUpTo(chars, n - 1)
         IN  shorter \cup {Append(str, c) : str \in shorter, c \in chars}

PageSizes == {5, 10, 20}

\* The filter fields a select of the two views offers ('' for none), and one
\* only an address bar can give.
FilterFields == {<<>>, <<"n", "a", "m", "e">>, <<"a", "=", "b">>}

CodecInit ==
    /\ codecView \in {"species", "habitats"}
    /\ pageState \in [page : 1..MaxCodecPage, pageSize : PageSizes,
                      filter : FilterFields, name : StringsUpTo(CodecChars, MaxNameLen)]
    /\ queryString = <<>>
    /\ decoded = <<>>

\* The codec is not in use.
CodecOff ==
    /\ codecView = "species"
    /\ pageState = [page |-> 1, pageSize |-> 5, filter |-> <<>>, name |-> <<>>]
    /\ queryString = <<>>
    /\ decoded = <<>>

\* updateURL(pageState): the navigation replaces location.search.
Encode ==
    /\ queryString = <<>>
    /\ queryString' = <<updateURL(codecView, ParamObj(pageState.name, pageState.filter,
                                                      pageState.page, pageState.pageSize))>>
    /\ UNCHANGED <<codecView, pageState, decoded>>
    /\ UNCHANGED notCodec

\* The useEffect on the new location.search.
Decode ==
    /\ queryString # <<>>
    /\ decoded = <<>>
    /\ decoded' = <<DecodeSearch(queryString[1])>>
    /\ UNCHANGED <<codecView, pageState, queryString>>
    /\ UNCHANGED notCodec

CodecNext == Encode \/ Decode

\* ------------------------------------------------------- the list views

\* ---- what the views show and ask for

NoSwal == [title |-> "", text |-> ""]

Swal(title, text) == [title |-> title, text |-> text]

Event(name, num, str) == [name |-> name, num |-> num, str |-> str]

\* The endpoint of an api.get: `${path}?page=${pg}&pageSize=${size}` with the
\* habitat id inside the path of a sub-collection and `&${field}=${value}` after
\* it for a search; query is <<>> or <<field, value>>.
EndPoint(path, id, pg, size, query) ==
    [path |-> path, id |-> id, page |-> pg, pageSize |-> size, query |-> query]

\* An awaited api.get: the function awaiting it, the endpoint, and the locals
\* the function resumes with.
Request(caller, endPoint, isSearch, allData) ==
    [caller |-> caller, endPoint |-> endPoint, isSearch |-> isSearch, allData |-> allData]

\* The server's answers: the request fails (no connection, a status that is
\* not ok), or it gives n rows (hasData: the body has a data property) and a
\* metadata.total_pages (0: none, or zero).
Responses ==
    [ok : {FALSE}, hasData : {FALSE}, n : {0}, total_pages : {0}]
    \cup [ok : {TRUE}, hasData : {FALSE}, n : {0}, total_pages : 0..MaxServerPages]
    \cup [ok : {TRUE}, hasData : {TRUE}, n : 0..MaxRows, total_pages : 0..MaxServerPages]

\* The rows of a response to endPoint, in order.
Rows(endPoint, n) == [k \in 1..n |-> [of |-> endPoint, row |-> k]]

HA_001 == <<"H", "A", "-", "0", "0", "1">>
HA_002 == <<"H", "A", "-", "0", "0", "2">>
HA_003 == <<"H", "A", "-", "0", "0", "3">>

\* The habitat_id of the rows of a page of /habitats.
ServerHabitatIds == <<HA_001, HA_002, HA_003>>

\* res.metadata?.total_pages without the fallback.
TotalPagesRaw(res) == res.total_pages

\* res.metadata?.total_pages || 1
TotalPagesOr1(res) == IF res.total_pages = 0 THEN 1 ELSE res.total_pages

\* /^[A-Za-z0-9\s\-']+$/ without its anchors: one allowed character is enough.
validPatternUnanchored(str) ==
    \E k \in 1..Len(str) :
        IsAlnum(str[k]) \/ IsSpace(str[k]) \/ str[k] \in {"-", "'"}

\* /^[A-Za-z0-9\s\-']+$/.test(str)
validPattern(str) ==
    /\ Len(str) >= 1
    /\ \A k \in 1..Len(str) :
          IsAlnum(str[k]) \/ IsSpace(str[k]) \/ str[k] \in {"-", "'"}

\* A load whose isSearch does not trim the term: name && filterBy.
LoadRequestNoTrim(component, pageToLoad, size, name, filterBy) ==
    LET isSearch == name # <<>> /\ filterBy # <<>>
    IN  Request(IF component = "habitats" THEN "loadHabitats" ELSE "loadSpecies",
                EndPoint(IF component = "habitats" THEN "/habitats" ELSE "/species",
                         <<>>, pageToLoad, size,
                         IF isSearch THEN <<filterBy, name>> ELSE <<>>),
                isSearch, <<>>)

\* loadSpecies / loadHabitats up to its await: the api.get it issues.
LoadRequest(component, pageToLoad, size, name, filterBy) ==
    LET isSearch == Trim(name) # <<>> /\ filterBy # <<>>
    IN  Request(IF component = "habitats" THEN "loadHabitats" ELSE "loadSpecies",
                EndPoint(IF component = "habitats" THEN "/habitats" ELSE "/species",
                         <<>>, pageToLoad, size,
                         IF isSearch THEN <<filterBy, name>> ELSE <<>>),
                isSearch, <<>>)

\* loadSubCollection up to its await; an array handed in as habitatId reads as
\* the string of its elements.
SubRequest(habitatId, pg, size) ==
    Request("loadSubCollection",
            EndPoint("/habitats/{id}/species", habitatId, pg, size, <<>>),
            FALSE, <<>>)

\* fetchHabitatsId at the await of its loop, asking for page pg with allData
\* gathered so far.
DrainRequest(pg, allData) ==
    Request("fetchHabitatsId", EndPoint("/habitats", <<>>, pg, 20, <<>>), FALSE, allData)

\* [...new Set(ids)]: the first occurrence of each.
RECURSIVE Unique(_)
Unique(ids) ==
    IF ids = <<>> THEN <<>>
    ELSE LET front == Unique(SubSeq(ids, 1, Len(ids) - 1))
             last == ids[Len(ids)]
         IN  IF \E k \in 1..Len(front) : front[k] = last THEN front
             ELSE Append(front, last)

RemoveAt(seq, i) == SubSeq(seq, 1, i - 1) \o SubSeq(seq, i + 1, Len(seq))

\* navigate(to): location.search becomes the string, and the effect that
\* depends on [location.search] is due when the string differs.
Navigate(to) ==
    /\ search' = to
    /\ effectPending' = (to # search)

K_habitat == <<"h", "a", "b", "i", "t", "a", "t">>

\* ---- inputs of the user

\* What is typed into the search box: a blank, a term of allowed characters,
\* a term with a character outside the allow-list.
Terms == {<<" ">>, <<"a", "-", "7">>, <<"a", "!">>}

F_name == <<"n", "a", "m", "e">>
F_climate == <<"c", "l", "i", "m", "a", "t", "e">>
F_diet == <<"d", "i", "e", "t">>

\* The options of the filter select offered here ('' is "Select Filter").
FilterOptions(component) ==
    IF component = "habitats" THEN {<<>>, F_name, F_climate} ELSE {<<>>, F_name, F_diet}

\* The address the view is opened at: none, one the view writes itself, and
\* one typed by hand (a page of 0 or below, a page size that is none of the
\* select's and has a letter after its digit).
InitialSearches(component) ==
    IF component = "sub"
    THEN {<<>>, <<"?">> \o K_habitat \o <<"=">> \o HA_001 \o <<"&">> \o K_page \o <<"=", "2">>,
          <<"?">> \o K_habitat \o <<"=">> \o HA_001 \o <<"&">> \o K_page \o <<"=", "0", "&">>
              \o K_pageSize \o <<"=", "7", "x">>}
    ELSE {<<>>,
          <<"?">> \o K_filter \o <<"=">> \o F_name \o <<"&">> \o K_name \o <<"=", "a", "-", "7", "&">>
              \o K_page \o <<"=", "2", "&">> \o K_pageSize \o <<"=", "1", "0">>,
          <<"?">> \o K_page \o <<"=", "-", "3", "&">> \o K_pageSize \o <<"=", "7", "x">>}

\* ---- mount

ListInit ==
    /\ view \in {"species", "habitats", "sub"}
    /\ search \in InitialSearches(view)
    /\ effectPending = TRUE
    /\ page = 1
    /\ pageSize = 5
    /\ totalPages = 1
    /\ searchName = <<>>
    /\ filter = <<>>
    /\ list = <<>>
    /\ selectedHabitatId = <<>>
    /\ habitatsId = <<>>
    /\ inflight = <<>>
    /\ swal = NoSwal
    /\ event = Event("mount", 0, <<>>)
    /\ userActions = 0

\* No list view is mounted.
ListOff ==
    /\ view = "none"
    /\ search = <<>>
    /\ effectPending = FALSE
    /\ page = 1
    /\ pageSize = 5
    /\ totalPages = 1
    /\ searchName = <<>>
    /\ filter = <<>>
    /\ list = <<>>
    /\ selectedHabitatId = <<>>
    /\ habitatsId = <<>>
    /\ inflight = <<>>
    /\ swal = NoSwal
    /\ event = Event("none", 0, <<>>)
    /\ userActions = 0

\* ---- Species and Habitats

IsTable == view \in {"species", "habitats"}

\* A control is used between renders, when no effect is due; the model lets
\* the user act MaxUserActions times.
CanUse == ~effectPending /\ userActions < MaxUserActions

\* A control whose handler may start a request is used only while fewer than
\* MaxInFlight requests are awaited.
CanAct == CanUse /\ Len(inflight) < MaxInFlight

Acted == userActions' = userActions + 1

\* The useEffect on [location.search]: decode, set the state, load.
useEffect_table ==
    /\ IsTable
    /\ effectPending
    /\ LET q == DecodeSearch(search)
       IN  /\ page' = q.page
           /\ pageSize' = q.pageSize
           /\ searchName' = q.name
           /\ filter' = q.filter
           /\ inflight' = Append(inflight,
                                 LoadRequest(view, q.page, q.pageSize, q.name, q.filter))
    /\ effectPending' = FALSE
    /\ event' = Event("useEffect", 0, <<>>)
    /\ UNCHANGED <<view, search, totalPages, list, selectedHabitatId, habitatsId, swal>>
    /\ UNCHANGED userActions
    /\ UNCHANGED notList

\* The search box's onChange; the box is disabled while no filter is chosen.
setSearchName ==
    /\ IsTable
    /\ CanUse
    /\ Acted
    /\ filter # <<>>
    /\ \E value \in Terms :
          /\ searchName' = value
          /\ event' = Event("setSearchName", 0, value)
    /\ UNCHANGED <<view, search, effectPending, page, pageSize, totalPages, filter,
                   list, selectedHabitatId, habitatsId, inflight, swal>>
    /\ UNCHANGED notList

\* The filter select's onChange.
setFilter ==
    /\ IsTable
    /\ CanUse
    /\ Acted
    /\ \E value \in FilterOptions(view) :
          /\ filter' = value
          /\ event' = Event("setFilter", 0, value)
    /\ UNCHANGED <<view, search, effectPending, page, pageSize, totalPages, searchName,
                   list, selectedHabitatId, habitatsId, inflight, swal>>
    /\ UNCHANGED notList

\* The form's onSubmit. The browser submits the form only when its required
\* controls hold a value: the select, and the search box unless it is disabled.
handleSearchSubmit ==
    /\ IsTable
    /\ CanAct
    /\ Acted
    /\ filter # <<>>
    /\ searchName # <<>>
    /\ event' = Event("handleSearchSubmit", 0, searchName)
    /\ IF Trim(searchName) = <<>>
       THEN /\ swal' = IF view = "habitats"
                       THEN Swal("Error", "Please enter a search term.")
                       ELSE Swal("Info", "Please enter a search term to search.")
            /\ UNCHANGED <<search, effectPending>>
       ELSE IF ~validPattern(searchName)
       THEN /\ swal' = Swal("Invalid input",
                            "Allowed characters: letters, numbers, spaces, hyphens, apostrophes.")
            /\ UNCHANGED <<search, effectPending>>
       ELSE /\ Navigate(updateURL(view, ParamObj(searchName, filter, 1, pageSize)))
            /\ UNCHANGED swal
    /\ UNCHANGED <<view, page, pageSize, totalPages, searchName, filter, list,
                   selectedHabitatId, habitatsId, inflight>>
    /\ UNCHANGED notList

\* handleClearSearch of Habitats, handleClear of Species.
handleClearSearch ==
    /\ IsTable
    /\ CanAct
    /\ Acted
    /\ searchName' = <<>>
    /\ filter' = <<>>
    /\ page' = 1
    /\ Navigate(updateURL(view, ParamObj(<<>>, <<>>, 1, pageSize)))
    /\ swal' = IF view = "habitats"
               THEN Swal("Cleared", "Search reset. Displaying all habitats.")
               ELSE Swal("Cleared", "Search reset. Displaying all species.")
    /\ event' = Event("handleClearSearch", 0, <<>>)
    /\ UNCHANGED <<view, pageSize, totalPages, list, selectedHabitatId, habitatsId, inflight>>
    /\ UNCHANGED notList

\* The pages the buttons of <Pagination page totalPages visiblePages={5}> ask for.
PageButtons ==
    LET its == Pagination(page, totalPages, 5)
    IN  {its[k].onClick : k \in 1..Len(its)}

handlePageChange_table ==
    /\ IsTable
    /\ CanAct
    /\ Acted
    /\ \E newPage \in PageButtons :
          /\ page' = newPage
          /\ Navigate(updateURL(view, ParamObj(searchName, filter, newPage, pageSize)))
          /\ event' = Event("handlePageChange", newPage, <<>>)
    /\ UNCHANGED <<view, pageSize, totalPages, searchName, filter, list,
                   selectedHabitatId, habitatsId, inflight, swal>>
    /\ UNCHANGED notList

handlePageSizeChange_table ==
    /\ IsTable
    /\ CanAct
    /\ Acted
    /\ \E newPageSize \in PageSizes :
          /\ pageSize' = newPageSize
          /\ page' = 1
          /\ Navigate(updateURL(view, ParamObj(searchName, filter, 1, newPageSize)))
          /\ event' = Event("handlePageSizeChange", newPageSize, <<>>)
    /\ UNCHANGED <<view, totalPages, searchName, filter, list,
                   selectedHabitatId, habitatsId, inflight, swal>>
    /\ UNCHANGED notList

\* The "Fetch Habitats" / "Fetch Species" link: loadHabitats() / loadSpecies()
\* with the state as its arguments' defaults.
fetchLink ==
    /\ IsTable
    /\ CanAct
    /\ Acted
    /\ inflight' = Append(inflight, LoadRequest(view, page, pageSize, searchName, filter))
    /\ event' = Event("fetchLink", 0, <<>>)
    /\ UNCHANGED <<view, search, effectPending, page, pageSize, totalPages, searchName,
                   filter, list, selectedHabitatId, habitatsId, swal>>
    /\ UNCHANGED notList

\* loadSpecies / loadHabitats after its await, the request answered.
load_resolved ==
    /\ \E i \in 1..Len(inflight), res \in Responses :
          /\ inflight[i].caller \in {"loadSpecies", "loadHabitats"}
          /\ res.ok
          /\ list' = Rows(inflight[i].endPoint, res.n)
          /\ totalPages' = TotalPagesOr1(res)
          /\ swal' = IF inflight[i].isSearch /\ res.n = 0
                     THEN Swal("No Results",
                               "No records found with the selected search criteria.")
                     ELSE swal
          /\ inflight' = RemoveAt(inflight, i)
          /\ event' = IF inflight[i].isSearch /\ res.n = 0
                      THEN Event(inflight[i].caller, 1, <<"No Results">>)
                      ELSE Event(inflight[i].caller, 0, <<>>)
    /\ UNCHANGED <<view, search, effectPending, page, pageSize, searchName, filter,
                   selectedHabitatId, habitatsId>>
    /\ UNCHANGED userActions
    /\ UNCHANGED notList

\* A catch of loadSpecies / loadHabitats that fires its notice and sends the
\* request again.
load_rejectedRetry ==
    /\ \E i \in 1..Len(inflight), res \in Responses :
          /\ inflight[i].caller \in {"loadSpecies", "loadHabitats"}
          /\ ~res.ok
          /\ swal' = IF inflight[i].caller = "loadHabitats"
                     THEN Swal("Error", "Could not load habitats: ${error.message}")
                     ELSE Swal("Error", "Could not load species: ${error.message}")
          /\ inflight' = Append(RemoveAt(inflight, i), inflight[i])
          /\ event' = Event(IF inflight[i].caller = "loadHabitats"
                            THEN "loadHabitats.catch" ELSE "loadSpecies.catch",
                            1, <<"Error">>)
    /\ UNCHANGED <<view, search, effectPending, page, pageSize, totalPages, searchName,
                   filter, list, selectedHabitatId, habitatsId>>
    /\ UNCHANGED userActions
    /\ UNCHANGED notList

\* loadSpecies / loadHabitats in its catch, the request failed.
load_rejected ==
    /\ \E i \in 1..Len(inflight), res \in Responses :
          /\ inflight[i].caller \in {"loadSpecies", "loadHabitats"}
          /\ ~res.ok
          /\ swal' = IF inflight[i].caller = "loadHabitats"
                     THEN Swal("Error", "Could not load habitats: ${error.message}")
                     ELSE Swal("Error", "Could not load species: ${error.message}")
          /\ inflight' = RemoveAt(inflight, i)
          /\ event' = Event(IF inflight[i].caller = "loadHabitats"
                            THEN "loadHabitats.catch" ELSE "loadSpecies.catch",
                            1, <<"Error">>)
    /\ UNCHANGED <<view, search, effectPending, page, pageSize, totalPages, searchName,
                   filter, list, selectedHabitatId, habitatsId>>
    /\ UNCHANGED userActions
    /\ UNCHANGED notList

\* ---- SubCollection

IsSub == view = "sub"

\* The table, the pager and the page-size select are rendered only under
\* selectedHabitatId && speciesList.length > 0.
PagerShown == selectedHabitatId # <<>> /\ list # <<>>

\* The useEffect on [location.search]: start fetchHabitatsId, decode, and load
\* the sub-collection when the address names a habitat.
useEffect_sub ==
    /\ IsSub
    /\ effectPending
    /\ LET params == URLSearchParams(search)
           habitat == StringOr(get(params, K_habitat))
           pg == NumberOr(parseInt(get(params, K_page)), 1)
           size == NumberOr(parseInt(get(params, K_pageSize)), 5)
       IN  IF habitat # <<>>
           THEN /\ selectedHabitatId' = habitat
                /\ inflight' = inflight \o <<DrainRequest(1, <<>>), SubRequest(habitat, pg, size)>>
           ELSE /\ inflight' = Append(inflight, DrainRequest(1, <<>>))
                /\ UNCHANGED selectedHabitatId
    /\ effectPending' = FALSE
    /\ event' = Event("useEffect", 0, <<>>)
    /\ UNCHANGED <<view, search, page, pageSize, totalPages, searchName, filter, list,
                   habitatsId, swal>>
    /\ UNCHANGED userActions
    /\ UNCHANGED notList

\* The habitat select's onChange: an id of habitatsId, or '' ("Choose").
handleHabitatChange ==
    /\ IsSub
    /\ CanAct
    /\ Acted
    /\ \E habitatId \in {<<>>} \cup {habitatsId[k] : k \in 1..Len(habitatsId)} :
          /\ habitatId # selectedHabitatId
          /\ selectedHabitatId' = habitatId
          /\ inflight' = Append(inflight,
                                IF habitatId # <<>>
                                THEN SubRequest(habitatId, 1, pageSize)
                                ELSE SubRequest(<<>>, page, pageSize))
          /\ event' = Event("handleHabitatChange", 0, habitatId)
    /\ UNCHANGED <<view, search, effectPending, page, pageSize, totalPages, searchName,
                   filter, list, habitatsId, swal>>
    /\ UNCHANGED notList

handlePageChange_sub ==
    /\ IsSub
    /\ CanAct
    /\ Acted
    /\ PagerShown
    /\ \E newPage \in PageButtons :
          /\ page' = newPage
          /\ inflight' = Append(inflight, SubRequest(selectedHabitatId, newPage, pageSize))
          /\ event' = Event("handlePageChange", newPage, <<>>)
    /\ UNCHANGED <<view, search, effectPending, pageSize, totalPages, searchName, filter,
                   list, selectedHabitatId, habitatsId, swal>>
    /\ UNCHANGED notList

handlePageSizeChange_sub ==
    /\ IsSub
    /\ CanAct
    /\ Acted
    /\ PagerShown
    /\ \E newSize \in PageSizes :
          /\ pageSize' = newSize
          /\ page' = 1
          /\ inflight' = Append(inflight, SubRequest(selectedHabitatId, 1, newSize))
          /\ event' = Event("handlePageSizeChange", newSize, <<>>)
    /\ UNCHANGED <<view, search, effectPending, totalPages, searchName, filter, list,
                   selectedHabitatId, habitatsId, swal>>
    /\ UNCHANGED notList

\* loadSubCollection after its await, the request answered.
loadSubCollection_resolved ==
    /\ \E i \in 1..Len(inflight), res \in Responses :
          /\ inflight[i].caller = "loadSubCollection"
          /\ res.ok
          /\ list' = Rows(inflight[i].endPoint, res.n)
          /\ totalPages' = TotalPagesOr1(res)
          /\ page' = inflight[i].endPoint.page
          /\ pageSize' = inflight[i].endPoint.pageSize
          /\ inflight' = RemoveAt(inflight, i)
          /\ event' = Event("loadSubCollection", 0, <<>>)
    /\ UNCHANGED <<view, search, effectPending, searchName, filter, selectedHabitatId,
                   habitatsId, swal>>
    /\ UNCHANGED userActions
    /\ UNCHANGED notList

\* loadSubCollection in its catch, the request failed.
loadSubCollection_rejected ==
    /\ \E i \in 1..Len(inflight), res \in Responses :
          /\ inflight[i].caller = "loadSubCollection"
          /\ ~res.ok
          /\ swal' = Swal("Error", "Failed to load sub collection.")
          /\ inflight' = RemoveAt(inflight, i)
          /\ event' = Event("loadSubCollection.catch", 1, <<"Error">>)
    /\ UNCHANGED <<view, search, effectPending, page, pageSize, totalPages, searchName,
                   filter, list, selectedHabitatId, habitatsId>>
    /\ UNCHANGED userActions
    /\ UNCHANGED notList

\* fetchHabitatsId after an await of its loop: gather the page, and ask for
\* the next one or set the ids, each once.
fetchHabitatsId_resolved ==
    /\ \E i \in 1..Len(inflight), res \in Responses :
          /\ inflight[i].caller = "fetchHabitatsId"
          /\ res.ok /\ res.hasData
          /\ LET allData == inflight[i].allData \o SubSeq(ServerHabitatIds, 1, res.n)
                 nextPage == inflight[i].endPoint.page + 1
             IN  IF nextPage <= TotalPagesOr1(res)
                 THEN /\ inflight' = Append(RemoveAt(inflight, i),
                                            DrainRequest(nextPage, allData))
                      /\ UNCHANGED habitatsId
                 ELSE /\ inflight' = RemoveAt(inflight, i)
                      /\ habitatsId' = Unique(allData)
          /\ event' = Event("fetchHabitatsId", 0, <<>>)
    /\ UNCHANGED <<view, search, effectPending, page, pageSize, totalPages, searchName,
                   filter, list, selectedHabitatId, swal>>
    /\ UNCHANGED userActions
    /\ UNCHANGED notList

\* fetchHabitatsId in its catch: the request failed, or the body has no data
\* to spread.
fetchHabitatsId_rejected ==
    /\ \E i \in 1..Len(inflight), res \in Responses :
          /\ inflight[i].caller = "fetchHabitatsId"
          /\ ~(res.ok /\ res.hasData)
          /\ swal' = Swal("Error", "Failed to load all habitat IDs.")
          /\ inflight' = RemoveAt(inflight, i)
          /\ event' = Event("fetchHabitatsId.catch", 1, <<"Error">>)
    /\ UNCHANGED <<view, search, effectPending, page, pageSize, totalPages, searchName,
                   filter, list, selectedHabitatId, habitatsId>>
    /\ UNCHANGED userActions
    /\ UNCHANGED notList

ListNext ==
    \/ useEffect_table
    \/ setSearchName
    \/ setFilter
    \/ handleSearchSubmit
    \/ handleClearSearch
    \/ handlePageChange_table
    \/ handlePageSizeChange_table
    \/ fetchLink
    \/ load_resolved
    \/ load_rejected
    \/ useEffect_sub
    \/ handleHabitatChange
    \/ handlePageChange_sub
    \/ handlePageSizeChange_sub
    \/ loadSubCollection_resolved
    \/ loadSubCollection_rejected
    \/ fetchHabitatsId_resolved
    \/ fetchHabitatsId_rejected

\* ------------------------------------------------- the create-resource form

\* ---- objects and values of the language

\* {} is the function of no keys; { ...obj, [key]: val }.
EmptyObject == [k \in {} |-> <<>>]

\* An object of the one key, without the spread of obj.
PutOnly(obj, key, val) == [k \in {key} |-> val]

Put(obj, key, val) == [k \in DOMAIN obj \cup {key} |-> IF k = key THEN val ELSE obj[k]]

\* A value read from a parsed response body.
Undefined == [t |-> "undefined", v |-> ""]

Num(n) == [t |-> "number", v |-> n]

Str(str) == [t |-> "string", v |-> str]

\* a == b: a string is converted to a number before it is compared with one,
\* so that "23000" == 23000.
LooseEquals(a, b) ==
    \/ a.t = b.t /\ (a.t = "undefined" \/ a.v = b.v)
    \/ a.t = "string" /\ b.t = "number" /\ a.v = "23000" /\ b.v = 23000

\* a === b
StrictEquals(a, b) == a.t = b.t /\ (a.t = "undefined" \/ a.v = b.v)

\* `${x}` for undefined or a string.
TemplateString(x) == IF x.t = "undefined" THEN "undefined" ELSE x.v

ToUpperChar(c) == IF IsLower(c) THEN FromCharCode(CharCode(c) - 32) ELSE c

toUpperCase(str) == [k \in 1..Len(str) |-> ToUpperChar(str[k])]

AllDigits(str) == \A k \in 1..Len(str) : IsDigit(str[k])

Repeat(c, n) == [k \in 1..n |-> c]

\* ---- the schemas

habitatFields ==
    <<"habitat_id", "name", "climate", "location", "long_range", "lat_range",
      "description">>

speciesFields ==
    <<"species_id", "common_name", "description", "name_of_offspring",
      "group_behaviour", "gestation_period", "breeding_season", "num_of_offspring",
      "average_lifespan", "diet_id", "habitat_id", "classification_id">>

fields(type) == IF type = "habitat" THEN habitatFields ELSE speciesFields

FieldNames(type) == {fields(type)[k] : k \in 1..Len(fields(type))}

\* The fields of the species schema that carry a dropdown.
DropdownFields == {"diet_id", "habitat_id", "classification_id"}

\* ---- validate

\* /^XX-\d{3}$/i.test(value), prefix the letters XX
TestId(prefix, value) ==
    /\ Len(value) = 6
    /\ toUpperCase(SubSeq(value, 1, 2)) = prefix
    /\ value[3] = "-"
    /\ AllDigits(SubSeq(value, 4, 6))

\* /^[A-Za-z]+$/.test(value)
TestLetters(value) ==
    /\ value # <<>>
    /\ \A k \in 1..Len(value) : IsUpper(value[k]) \/ IsLower(value[k])

\* /^\d+[EW] to \d+[EW]$/i.test(value), letters the two of the class
TestRange(letters, value) ==
    \E i \in 1..Len(value) :
        /\ AllDigits(SubSeq(value, 1, i))
        /\ Len(value) >= i + 7
        /\ ToUpperChar(value[i + 1]) \in letters
        /\ toUpperCase(SubSeq(value, i + 2, i + 5)) = <<" ", "T", "O", " ">>
        /\ AllDigits(SubSeq(value, i + 6, Len(value) - 1))
        /\ ToUpperChar(value[Len(value)]) \in letters

\* /^\d+$/.test(value)
TestDigits(value) == value # <<>> /\ AllDigits(value)

\* formData[name]?.toString().trim() || ''
Value(data, name) == IF name \in DOMAIN data THEN Trim(data[name]) ELSE <<>>

\* The switch on the field's name: the message of the rule broken, "" if none.
RuleError(name, value) ==
    CASE name = "habitat_id" ->
            IF ~TestId(<<"H", "A">>, value)
            THEN "Habitat ID must be in the format HA-###" ELSE ""
      [] name = "name" ->
            IF Len(value) < 1 THEN "Name must not be empty" ELSE ""
      [] name = "climate" ->
            IF ~TestLetters(value) THEN "Climate must contain only letters" ELSE ""
      [] name = "long_range" ->
            IF ~TestRange({"E", "W"}, value)
            THEN "Longitude range must be like \"30E to 45W\"" ELSE ""
      [] name = "lat_range" ->
            IF ~TestRange({"N", "S"}, value)
            THEN "Latitude range must be like \"20N to 40S\"" ELSE ""
      [] name = "description" ->
            IF Len(value) < 10
            THEN "Description must be at least 10 characters long" ELSE ""
      [] name = "species_id" ->
            IF ~TestId(<<"S", "P">>, value)
            THEN "Species ID must be in the format SP-###" ELSE ""
      [] name = "common_name" ->
            IF Len(value) < 1 \/ Len(value) > 255
            THEN "Common name must be 1-255 characters long" ELSE ""
      [] name = "name_of_offspring" ->
            IF Len(value) > 255
            THEN "Name of offspring must be 255 characters max" ELSE ""
      [] name = "group_behaviour" ->
            IF Len(value) > 32 THEN "Group behaviour must be 32 characters max" ELSE ""
      [] name = "gestation_period" ->
            IF Len(value) > 32 THEN "Gestation period must be 32 characters max" ELSE ""
      [] name = "breeding_season" ->
            IF Len(value) > 16 THEN "Breeding season must be 16 characters max" ELSE ""
      [] name \in {"num_of_offspring", "average_lifespan"} ->
            IF ~TestDigits(value) THEN "Must be an integer" ELSE ""
      [] name = "diet_id" ->
            IF ~TestId(<<"D", "I">>, value)
            THEN "Diet ID must be in the format DI-###" ELSE ""
      [] name = "classification_id" ->
            IF ~TestId(<<"C", "L">>, value)
            THEN "Classification ID must be in the format CL-###" ELSE ""
      [] OTHER -> ""

\* The body of the forEach for one field.
FieldError(name, value) ==
    IF value = <<>> THEN "This field is required" ELSE RuleError(name, value)

\* A validate that stops at the first field that fails.
validateFirstOnly(type, data) ==
    LET failing == {k \in 1..Len(fields(type)) :
                        FieldError(fields(type)[k], Value(data, fields(type)[k])) # ""}
        first == {fields(type)[k] : k \in {j \in failing : \A i \in failing : j <= i}}
    IN  [name \in first |-> FieldError(name, Value(data, name))]

\* A validate that does not look at the fields that carry a dropdown.
validateTyped(type, data) ==
    LET names == IF type = "species" THEN FieldNames(type) \ DropdownFields
                 ELSE FieldNames(type)
        failing == {name \in names : FieldError(name, Value(data, name)) # ""}
    IN  [name \in failing |-> FieldError(name, Value(data, name))]

\* validate: newErrors, with a key for each field of the schema that fails.
validate(type, data) ==
    LET failing == {name \in FieldNames(type) : FieldError(name, Value(data, name)) # ""}
    IN  [name \in failing |-> FieldError(name, Value(data, name))]

\* ---- the requests

\* parsedData: the record, the two counts of a species parsed as integers.
parsedData(type, data) ==
    LET counts == IF type = "species" THEN {"num_of_offspring", "average_lifespan"} ELSE {}
    IN  [name \in DOMAIN data \cup counts |->
            IF name \in counts
            THEN parseInt(IF name \in DOMAIN data THEN <<data[name]>> ELSE <<>>)
            ELSE data[name]]

\* An awaited api.post: the endpoint, the body, and the resourceType of the
\* render that submitted.
Post(type, data) ==
    [endpoint |-> IF type = "habitat" THEN "/habitats" ELSE "/species",
     body |-> <<parsedData(type, data)>>,
     resourceType |-> type]

\* A parsed JSON body that is an object with (or without) code and id; a body
\* that is text; a JSON null.
Body(code, id) == [t |-> "object", code |-> code, id |-> id]

TextBody == [t |-> "string", code |-> Undefined, id |-> Undefined]

NullBody == [t |-> "null", code |-> Undefined, id |-> Undefined]

\* How a POST fails: fetch throws with a message, or the response is not ok,
\* with a status text and a body.
PostFailures ==
    [kind : {"network"}, text : {"Failed to fetch", ""}, body : {Body(Undefined, Undefined)}]
    \cup [kind : {"http"}, text : {"Conflict"},
          body : {Body(Num(23000), Str("HA-001")), Body(Num(23000), Undefined),
                  Body(Str("23000"), Str("HA-001")), Body(Num(42000), Str("HA-001")),
                  Body(Undefined, Undefined), TextBody, NullBody}]
    \cup [kind : {"http"}, text : {""}, body : {Body(Undefined, Undefined)}]

\* The CustomError sendRequest throws; no body modelled carries a message.
CustomError(failure) ==
    IF failure.kind = "network"
    THEN [message |-> IF failure.text # "" THEN failure.text ELSE "Network Error",
          statusCode |-> 0,
          details |-> Body(Undefined, Undefined)]
    ELSE [message |-> IF failure.text # "" THEN failure.text ELSE "Unknown error",
          statusCode |-> 409,
          details |-> failure.body]

\* The catch of handleSubmit with code == 23000 for its test.
CatchNoticeLoose(err) ==
    IF LooseEquals(err.details.code, Num(23000))
    THEN [title |-> "Duplicate ID",
          text |-> <<"A record with ID \"", TemplateString(err.details.id),
                     "\" already exists.">>]
    ELSE [title |-> "Error",
          text |-> <<IF err.message # "" THEN err.message ELSE "Something went wrong.">>]

\* The catch of handleSubmit: the notice it fires. err?.details?.code of a
\* body that is text or null is undefined, as Body gives it.
CatchNotice(err) ==
    IF StrictEquals(err.details.code, Num(23000))
    THEN [title |-> "Duplicate ID",
          text |-> <<"A record with ID \"", TemplateString(err.details.id),
                     "\" already exists.">>]
    ELSE [title |-> "Error",
          text |-> <<IF err.message # "" THEN err.message ELSE "Something went wrong.">>]

\* ---- the dropdown population

DropdownEndpoints == {"/diets", "/habitats", "/classifications"}

IdPrefix(endpoint) ==
    CASE endpoint = "/diets" -> <<"D", "I">>
      [] endpoint = "/habitats" -> <<"H", "A">>
      [] endpoint = "/classifications" -> <<"C", "L">>
      [] endpoint = "/species" -> <<"S", "P">>

\* The id of row k of page pg of a collection, as the server here numbers them.
ServerId(endpoint, pg, k) ==
    IdPrefix(endpoint) \o <<"-", "0", "0">> \o NatToString((pg - 1) * MaxRows + k)

\* The ids of the n rows of a page.
PageIds(endpoint, pg, n) == [k \in 1..n |-> ServerId(endpoint, pg, k)]

\* fetchAllIds at the await of its loop, or returned, or thrown.
Drain(status, pg, all) == [status |-> status, page |-> pg, all |-> all]

\* A loop body that counts two pages for one response.
DrainAfterSkip(d, endpoint, res) ==
    Drain(IF d.page + 2 <= TotalPagesOr1(res) THEN "awaiting" ELSE "done",
          d.page + 2,
          d.all \o PageIds(endpoint, d.page, res.n))

\* A loop body that leaves the loop one page early: page < totalPages.
DrainAfterOneShort(d, endpoint, res) ==
    Drain(IF d.page + 1 < TotalPagesOr1(res) THEN "awaiting" ELSE "done",
          d.page + 1,
          d.all \o PageIds(endpoint, d.page, res.n))

\* The body of the do/while after its await: gather the page, count it, and go
\* round again while page <= totalPages, else leave the loop.
\* A loop that tests the page it has just read, before it counts it.
DrainAfterAgain(d, endpoint, res) ==
    Drain(IF d.page <= TotalPagesOr1(res) THEN "awaiting" ELSE "done",
          d.page + 1,
          d.all \o PageIds(endpoint, d.page, res.n))

DrainAfter(d, endpoint, res) ==
    Drain(IF d.page + 1 <= TotalPagesOr1(res) THEN "awaiting" ELSE "done",
          d.page + 1,
          d.all \o PageIds(endpoint, d.page, res.n))

\* A call of fetchDropdownData: its three fetchAllIds.
NewDropdownFetch == [e \in DropdownEndpoints |-> Drain("awaiting", 1, <<>>)]

\* ---- inputs of the user

\* What is typed into a text field: a value that passes (typed in lower case
\* and with a space before it where the form is to normalise it), a value that
\* breaks the field's rule where it has one, and a blank.
Typed(name) ==
    {<<" ">>} \cup
    CASE name = "habitat_id" -> {<<" ", "h", "a", "-", "0", "0", "1">>, <<"H", "A", "-", "0", "1">>}
      [] name = "name" -> {<<"R", "e", "e", "f">>}
      [] name = "climate" -> {<<"A", "r", "i", "d">>, <<"A", "r", "i", "d", "1">>}
      [] name = "location" -> {<<"A", "s", "i", "a">>}
      [] name = "long_range" -> {<<"3", "0", "E", " ", "t", "o", " ", "4", "5", "W">>, <<"3", "0", "E", "-", "4", "5", "W">>}
      [] name = "lat_range" -> {<<"2", "0", "n", " ", "t", "o", " ", "4", "0", "S">>, <<"2", "0", "N", " ", "t", "o", " ", "4", "0", "E">>}
      [] name = "description" -> {<<"A", " ", "d", "r", "y", " ", "p", "l", "a", "i", "n">>, <<"D", "r", "y">>}
      [] name = "species_id" -> {<<"s", "p", "-", "0", "0", "1">>, <<"S", "P", "-", "0", "0", "1", "1">>}
      [] name = "common_name" -> {<<"L", "i", "o", "n">>, Repeat("a", 256)}
      [] name = "name_of_offspring" -> {<<"C", "u", "b">>, Repeat("a", 256)}
      [] name = "group_behaviour" -> {<<"P", "r", "i", "d", "e">>, Repeat("a", 33)}
      [] name = "gestation_period" -> {<<"1", "1", "0", " ", "d", "a", "y", "s">>, Repeat("a", 33)}
      [] name = "breeding_season" -> {<<"S", "p", "r", "i", "n", "g">>, Repeat("a", 17)}
      [] name = "num_of_offspring" -> {<<"3", "a">>, <<"a">>}
      [] name = "average_lifespan" -> {<<"1", "2">>}
      [] OTHER -> {}

ValidHabitat ==
    [name \in FieldNames("habitat") |->
        CASE name = "habitat_id" -> <<"H", "A", "-", "0", "0", "1">>
          [] name = "name" -> <<"R", "e", "e", "f">>
          [] name = "climate" -> <<"A", "r", "i", "d">>
          [] name = "location" -> <<"A", "s", "i", "a">>
          [] name = "long_range" -> <<"3", "0", "E", " ", "t", "o", " ", "4", "5", "W">>
          [] name = "lat_range" -> <<"2", "0", "N", " ", "t", "o", " ", "4", "0", "S">>
          [] name = "description" -> <<"A", " ", "d", "r", "y", " ", "p", "l", "a", "i", "n">>]

ValidSpecies ==
    [name \in FieldNames("species") |->
        CASE name = "species_id" -> <<"S", "P", "-", "0", "0", "1">>
          [] name = "common_name" -> <<"L", "i", "o", "n">>
          [] name = "description" -> <<"A", " ", "l", "a", "r", "g", "e", " ", "c", "a", "t">>
          [] name = "name_of_offspring" -> <<"C", "u", "b">>
          [] name = "group_behaviour" -> <<"P", "r", "i", "d", "e">>
          [] name = "gestation_period" -> <<"1", "1", "0", " ", "d", "a", "y", "s">>
          [] name = "breeding_season" -> <<"S", "p", "r", "i", "n", "g">>
          [] name = "num_of_offspring" -> <<"3">>
          [] name = "average_lifespan" -> <<"1", "2">>
          [] name = "diet_id" -> ServerId("/diets", 1, 1)
          [] name = "habitat_id" -> ServerId("/habitats", 1, 1)
          [] name = "classification_id" -> ServerId("/classifications", 1, 1)]

\* ---- mount

\* The form as mounted, and the form as the user has filled it in without a
\* mistake: a habitat; a species with the dropdowns loaded from one page each;
\* and a species whose typed fields are filled in while the population of the
\* dropdowns, started by the switch to species, is still awaited.
CreateInit ==
    /\ \/ /\ resourceType = "habitat"
          /\ formData = EmptyObject
          /\ createEffectPending = TRUE
          /\ dietsIds = <<>> /\ habitatIds = <<>> /\ classificationIds = <<>>
          /\ dropdownFetches = <<>>
          /\ formActions = 0
          /\ populated = FALSE
       \/ /\ resourceType = "habitat"
          /\ formData = ValidHabitat
          /\ createEffectPending = FALSE
          /\ dietsIds = <<>> /\ habitatIds = <<>> /\ classificationIds = <<>>
          /\ dropdownFetches = <<>>
          /\ formActions = 0
          /\ populated = FALSE
       \/ /\ resourceType = "species"
          /\ formData = ValidSpecies
          /\ createEffectPending = FALSE
          /\ dietsIds = PageIds("/diets", 1, 1)
          /\ habitatIds = PageIds("/habitats", 1, 1)
          /\ classificationIds = PageIds("/classifications", 1, 1)
          /\ dropdownFetches = <<>>
          /\ formActions = 0
          /\ populated = TRUE
       \/ /\ resourceType = "species"
          /\ formData = [name \in FieldNames("species") \ DropdownFields |-> ValidSpecies[name]]
          /\ createEffectPending = FALSE
          /\ dietsIds = <<>> /\ habitatIds = <<>> /\ classificationIds = <<>>
          /\ dropdownFetches = <<NewDropdownFetch>>
          /\ populated = FALSE
          /\ formActions = 1
    /\ errors = EmptyObject
    /\ posts = <<>>
    /\ createSwal = [title |-> "", text |-> <<>>]
    /\ createEvent = [name |-> "mount", failure |-> <<>>]

\* The form is not mounted.
CreateOff ==
    /\ resourceType = "none"
    /\ formData = EmptyObject
    /\ errors = EmptyObject
    /\ dietsIds = <<>> /\ habitatIds = <<>> /\ classificationIds = <<>>
    /\ createEffectPending = FALSE
    /\ dropdownFetches = <<>>
    /\ posts = <<>>
    /\ createSwal = [title |-> "", text |-> <<>>]
    /\ createEvent = [name |-> "none", failure |-> <<>>]
    /\ formActions = 0
    /\ populated = FALSE

\* ---- the callbacks

\* A control of the form is used between renders, when no effect is due; the
\* model lets the user edit, switch or submit MaxFormActions times.
CanEdit == ~createEffectPending /\ formActions < MaxFormActions

\* The useEffect on [resourceType].
useEffect_resourceType ==
    /\ createEffectPending
    /\ createEffectPending' = FALSE
    /\ dropdownFetches' = IF resourceType = "species"
                          THEN Append(dropdownFetches, NewDropdownFetch)
                          ELSE dropdownFetches
    /\ createEvent' = [name |-> "useEffect", failure |-> <<>>]
    /\ UNCHANGED <<resourceType, formData, errors, dietsIds, habitatIds,
                   classificationIds, posts, createSwal, formActions>>
    /\ UNCHANGED populated
    /\ UNCHANGED notCreate

\* The options of a dropdown field.
dropdown(name) ==
    CASE name = "diet_id" -> dietsIds
      [] name = "habitat_id" -> habitatIds
      [] name = "classification_id" -> classificationIds

\* What the control of a field can hand to handleInputChange: '' or an option
\* of a select, what is typed into an input.
Inputs(name) ==
    IF resourceType = "species" /\ name \in DropdownFields
    THEN {<<>>} \cup {dropdown(name)[k] : k \in 1..Len(dropdown(name))}
    ELSE Typed(name)

handleInputChange ==
    /\ CanEdit
    /\ \E name \in FieldNames(resourceType) :
          \E value \in Inputs(name) :
              LET processedValue ==
                      IF name \in {"num_of_offspring", "average_lifespan"}
                      THEN SelectSeq(value, IsDigit)
                      ELSE IF name \in {"habitat_id", "species_id"}
                      THEN toUpperCase(value)
                      ELSE value
              IN  /\ formData' = Put(formData, name, processedValue)
                  /\ errors' = Put(errors, name, "")
    /\ formActions' = formActions + 1
    /\ createEvent' = [name |-> "handleInputChange", failure |-> <<>>]
    /\ UNCHANGED <<resourceType, dietsIds, habitatIds, classificationIds,
                   createEffectPending, dropdownFetches, posts, createSwal>>
    /\ UNCHANGED populated
    /\ UNCHANGED notCreate

\* The onChange of the resource-type select; the model starts at most
\* MaxDropdownFetches populations at a time.
setResourceType ==
    /\ CanEdit
    /\ resourceType = "species" \/ Len(dropdownFetches) < MaxDropdownFetches
    /\ resourceType' = IF resourceType = "habitat" THEN "species" ELSE "habitat"
    /\ formData' = EmptyObject
    /\ errors' = EmptyObject
    /\ createEffectPending' = TRUE
    /\ formActions' = formActions + 1
    /\ createEvent' = [name |-> "setResourceType", failure |-> <<>>]
    /\ UNCHANGED <<dietsIds, habitatIds, classificationIds, dropdownFetches, posts,
                   createSwal>>
    /\ UNCHANGED populated
    /\ UNCHANGED notCreate

\* handleSubmit up to its await; the model lets MaxPosts requests be awaited.
handleSubmit ==
    /\ CanEdit
    /\ Len(posts) < MaxPosts
    /\ formActions' = formActions + 1
    /\ LET newErrors == validate(resourceType, formData)
       IN  /\ errors' = newErrors
           /\ posts' = IF DOMAIN newErrors = {}
                       THEN Append(posts, Post(resourceType, formData))
                       ELSE posts
    /\ createEvent' = [name |-> "handleSubmit", failure |-> <<>>]
    /\ UNCHANGED <<resourceType, formData, dietsIds, habitatIds, classificationIds,
                   createEffectPending, dropdownFetches, createSwal>>
    /\ UNCHANGED populated
    /\ UNCHANGED notCreate

\* handleSubmit after its await, the request answered.
handleSubmit_resolved ==
    /\ \E i \in 1..Len(posts) :
          /\ createSwal' = [title |-> "Success",
                            text |-> <<posts[i].resourceType, " created successfully!">>]
          /\ posts' = RemoveAt(posts, i)
    /\ formData' = EmptyObject
    /\ createEvent' = [name |-> "handleSubmit.then", failure |-> <<>>]
    /\ UNCHANGED <<resourceType, errors, dietsIds, habitatIds, classificationIds,
                   createEffectPending, dropdownFetches, formActions>>
    /\ UNCHANGED populated
    /\ UNCHANGED notCreate

\* handleSubmit in its catch, the request failed.
handleSubmit_rejected ==
    /\ \E i \in 1..Len(posts), failure \in PostFailures :
          /\ createSwal' = CatchNotice(CustomError(failure))
          /\ posts' = RemoveAt(posts, i)
          /\ createEvent' = [name |-> "handleSubmit.catch", failure |-> <<failure>>]
    /\ UNCHANGED <<resourceType, formData, errors, dietsIds, habitatIds,
                   classificationIds, createEffectPending, dropdownFetches, formActions>>
    /\ UNCHANGED populated
    /\ UNCHANGED notCreate

\* A call of fetchDropdownData is over when none of its drains awaits.
Over(run) == \A e \in DropdownEndpoints : run[e].status # "awaiting"

\* A fetchDropdownData that sets each list as soon as its own drain is done.
fetchAllIds_resolvedEach ==
    /\ \E x \in 1..Len(dropdownFetches), e \in DropdownEndpoints, res \in Responses :
          /\ dropdownFetches[x][e].status = "awaiting"
          /\ res.ok /\ res.hasData
          /\ LET run == [dropdownFetches[x] EXCEPT
                            ![e] = DrainAfter(dropdownFetches[x][e], e, res)]
                 now(f, ids) == IF f = e /\ run[f].status = "done" THEN run[f].all ELSE ids
             IN  /\ dropdownFetches' = IF Over(run) THEN RemoveAt(dropdownFetches, x)
                                       ELSE [dropdownFetches EXCEPT ![x] = run]
                 /\ dietsIds' = now("/diets", dietsIds)
                 /\ habitatIds' = now("/habitats", habitatIds)
                 /\ classificationIds' = now("/classifications", classificationIds)
                 /\ populated' = (populated \/ \A f \in DropdownEndpoints : run[f].status = "done")
    /\ createEvent' = [name |-> "fetchAllIds", failure |-> <<>>]
    /\ UNCHANGED <<resourceType, formData, errors, createEffectPending, posts,
                   createSwal, formActions>>
    /\ UNCHANGED notCreate

\* fetchAllIds after an await of its loop: gather the page, ask for the next
\* or return; with the last of the three to return, Promise.all resolves and
\* fetchDropdownData sets the three lists.
fetchAllIds_resolved ==
    /\ \E x \in 1..Len(dropdownFetches), e \in DropdownEndpoints, res \in Responses :
          /\ dropdownFetches[x][e].status = "awaiting"
          /\ res.ok /\ res.hasData
          /\ LET run == [dropdownFetches[x] EXCEPT
                            ![e] = DrainAfter(dropdownFetches[x][e], e, res)]
             IN  /\ dropdownFetches' = IF Over(run) THEN RemoveAt(dropdownFetches, x)
                                       ELSE [dropdownFetches EXCEPT ![x] = run]
                 /\ IF \A f \in DropdownEndpoints : run[f].status = "done"
                    THEN /\ dietsIds' = run["/diets"].all
                         /\ habitatIds' = run["/habitats"].all
                         /\ classificationIds' = run["/classifications"].all
                         /\ populated' = TRUE
                    ELSE UNCHANGED <<dietsIds, habitatIds, classificationIds, populated>>
    /\ createEvent' = [name |-> "fetchAllIds", failure |-> <<>>]
    /\ UNCHANGED <<resourceType, formData, errors, createEffectPending, posts,
                   createSwal, formActions>>
    /\ UNCHANGED notCreate

\* fetchAllIds throws: the request failed, or the body has no data to spread.
\* The first of the three to throw rejects Promise.all, and the catch of
\* fetchDropdownData fires its notice; the other drains run on.
fetchAllIds_rejected ==
    /\ \E x \in 1..Len(dropdownFetches), e \in DropdownEndpoints, res \in Responses :
          /\ dropdownFetches[x][e].status = "awaiting"
          /\ ~(res.ok /\ res.hasData)
          /\ LET d == dropdownFetches[x][e]
                 run == [dropdownFetches[x] EXCEPT ![e] = Drain("failed", d.page, <<>>)]
             IN  /\ dropdownFetches' = IF Over(run) THEN RemoveAt(dropdownFetches, x)
                                       ELSE [dropdownFetches EXCEPT ![x] = run]
                 /\ createSwal' =
                        IF \E f \in DropdownEndpoints : dropdownFetches[x][f].status = "failed"
                        THEN createSwal
                        ELSE [title |-> "Error",
                              text |-> <<"Failed to load dropdown options (foreign keys).">>]
    /\ createEvent' = [name |-> "fetchAllIds.catch", failure |-> <<>>]
    /\ UNCHANGED <<resourceType, formData, errors, dietsIds, habitatIds,
                   classificationIds, createEffectPending, posts, formActions>>
    /\ UNCHANGED populated
    /\ UNCHANGED notCreate

CreateNext ==
    \/ useEffect_resourceType
    \/ handleInputChange
    \/ setResourceType
    \/ handleSubmit
    \/ handleSubmit_resolved
    \/ handleSubmit_rejected
    \/ fetchAllIds_resolved
    \/ fetchAllIds_rejected

\* ------------------------------------------------------- the delete tool

\* An isValidIdFormat that looks at the shape of the id only.
isValidIdFormatAnyType(type, id) ==
    /\ Len(id) = 6
    /\ id[3] = "-"
    /\ AllDigits(SubSeq(id, 4, 6))

\* /^HA-\d{3}$/ or /^SP-\d{3}$/ .test(id), by the resource type.
isValidIdFormat(type, id) ==
    /\ Len(id) = 6
    /\ SubSeq(id, 1, 2) = (IF type = "habitats" THEN <<"H", "A">> ELSE <<"S", "P">>)
    /\ id[3] = "-"
    /\ AllDigits(SubSeq(id, 4, 6))

\* A dialog of the delete tool: a notice, or the confirmation prompt.
DelSwal(title, text) == [title |-> title, text |-> text]

\* A call of fetchIds: the resourceType of the render that called it, and its
\* loop.
Enumeration(type) == [type |-> type, drain |-> Drain("awaiting", 1, <<>>)]

\* An api.delete whose payload names the id habitat_id whatever the type.
DeleteHabitatKey(type, id) ==
    [endpoint |-> IF type = "habitats" THEN "/habitats" ELSE "/species",
     key |-> "habitat_id",
     id |-> id,
     type |-> type]

\* An awaited api.delete of the handleDelete of a render with this type and
\* selection: the endpoint, and the payload's key and value.
Delete(type, id) ==
    [endpoint |-> IF type = "habitats" THEN "/habitats" ELSE "/species",
     key |-> IF type = "habitats" THEN "habitat_id" ELSE "species_id",
     id |-> id,
     type |-> type]

\* ---- mount

DeleteInit ==
    /\ delType = "habitats"
    /\ resourceId = <<>>
    /\ selectedId = <<>>
    /\ delEffectPending = TRUE
    /\ enumerations = <<>>
    /\ prompt = <<>>
    /\ deletes = <<>>
    /\ delSwal = DelSwal("", <<>>)
    /\ delEvent = [name |-> "mount", fired |-> 0]
    /\ delActions = 0

\* The delete tool is not mounted.
DeleteOff ==
    /\ delType = "none"
    /\ resourceId = <<>>
    /\ selectedId = <<>>
    /\ delEffectPending = FALSE
    /\ enumerations = <<>>
    /\ prompt = <<>>
    /\ deletes = <<>>
    /\ delSwal = DelSwal("", <<>>)
    /\ delEvent = [name |-> "none", fired |-> 0]
    /\ delActions = 0

\* ---- the callbacks

\* A control of the tool is used between renders and while no confirmation
\* prompt covers the page; the model lets the user act MaxDeleteActions times.
CanDelete == ~delEffectPending /\ prompt = <<>> /\ delActions < MaxDeleteActions

\* The useEffect on [resourceType]: fetchIds().
useEffect_delType ==
    /\ delEffectPending
    /\ delEffectPending' = FALSE
    /\ enumerations' = Append(enumerations, Enumeration(delType))
    /\ delEvent' = [name |-> "useEffect", fired |-> 0]
    /\ UNCHANGED <<delType, resourceId, selectedId, prompt, deletes, delSwal, delActions>>
    /\ UNCHANGED notDelete

\* The onChange of the resource-type select: the list and the selection stay.
\* The model starts at most MaxEnumerations enumerations at a time.
setDeleteType ==
    /\ CanDelete
    /\ Len(enumerations) < MaxEnumerations
    /\ delType' = IF delType = "habitats" THEN "species" ELSE "habitats"
    /\ delEffectPending' = TRUE
    /\ delActions' = delActions + 1
    /\ delEvent' = [name |-> "setResourceType", fired |-> 0]
    /\ UNCHANGED <<resourceId, selectedId, enumerations, prompt, deletes, delSwal>>
    /\ UNCHANGED notDelete

\* The onChange of the id select: '' or an id of the list.
setSelectedId ==
    /\ CanDelete
    /\ \E id \in {<<>>} \cup {resourceId[k] : k \in 1..Len(resourceId)} :
          selectedId' = id
    /\ delActions' = delActions + 1
    /\ delEvent' = [name |-> "setSelectedId", fired |-> 0]
    /\ UNCHANGED <<delType, resourceId, delEffectPending, enumerations, prompt, deletes,
                   delSwal>>
    /\ UNCHANGED notDelete

\* handleDelete up to its await of the confirmation prompt.
handleDelete ==
    /\ CanDelete
    /\ delActions' = delActions + 1
    /\ delEvent' = [name |-> "handleDelete", fired |-> 1]
    /\ IF selectedId = <<>>
       THEN /\ delSwal' = DelSwal("Error", <<"Please select an ID to delete.">>)
            /\ UNCHANGED prompt
       ELSE IF ~isValidIdFormat(delType, selectedId)
       THEN /\ delSwal' = DelSwal("Invalid ID Format",
                                  <<"The ID must match ",
                                    IF delType = "habitats" THEN "HA-###" ELSE "SP-###",
                                    " format.">>)
            /\ UNCHANGED prompt
       ELSE /\ delSwal' = DelSwal("Delete ${resourceType}?", <<delType, selectedId>>)
            /\ prompt' = <<[type |-> delType, id |-> selectedId]>>
    /\ UNCHANGED <<delType, resourceId, selectedId, delEffectPending, enumerations, deletes>>
    /\ UNCHANGED notDelete

\* handleDelete after the prompt, confirmed: api.delete is called. The model
\* lets MaxDeletes requests be awaited.
handleDelete_confirmed ==
    /\ prompt # <<>>
    /\ Len(deletes) < MaxDeletes
    /\ deletes' = Append(deletes, Delete(prompt[1].type, prompt[1].id))
    /\ prompt' = <<>>
    /\ delEvent' = [name |-> "handleDelete.confirmed", fired |-> 0]
    /\ UNCHANGED <<delType, resourceId, selectedId, delEffectPending, enumerations,
                   delSwal, delActions>>
    /\ UNCHANGED notDelete

\* handleDelete after the prompt, cancelled or dismissed: it returns.
handleDelete_cancelled ==
    /\ prompt # <<>>
    /\ prompt' = <<>>
    /\ delEvent' = [name |-> "handleDelete.cancelled", fired |-> 0]
    /\ UNCHANGED <<delType, resourceId, selectedId, delEffectPending, enumerations,
                   deletes, delSwal, delActions>>
    /\ UNCHANGED notDelete

\* A handleDelete that shows its notice after the request is answered and
\* does not call fetchIds.
handleDelete_resolvedNoRefresh ==
    /\ \E i \in 1..Len(deletes) :
          /\ delSwal' = DelSwal("Deleted!", <<deletes[i].type, " with ID: ", deletes[i].id,
                                              " has been deleted.">>)
          /\ deletes' = RemoveAt(deletes, i)
    /\ prompt' = <<>>
    /\ delEvent' = [name |-> "handleDelete.then", fired |-> 1]
    /\ UNCHANGED <<delType, resourceId, selectedId, delEffectPending, delActions,
                   enumerations>>
    /\ UNCHANGED notDelete

\* handleDelete after its await of api.delete, the request answered: the
\* notice, and fetchIds() of the same render. A dialog fired while the prompt
\* of a later click is open takes its place, and that prompt is dismissed.
handleDelete_resolved ==
    /\ \E i \in 1..Len(deletes) :
          /\ delSwal' = DelSwal("Deleted!", <<deletes[i].type, " with ID: ", deletes[i].id,
                                              " has been deleted.">>)
          /\ enumerations' = Append(enumerations, Enumeration(deletes[i].type))
          /\ deletes' = RemoveAt(deletes, i)
    /\ prompt' = <<>>
    /\ delEvent' = [name |-> "handleDelete.then", fired |-> 1]
    /\ UNCHANGED <<delType, resourceId, selectedId, delEffectPending, delActions>>
    /\ UNCHANGED notDelete

\* handleDelete in its catch, the request failed.
handleDelete_rejected ==
    /\ \E i \in 1..Len(deletes) :
          /\ delSwal' = DelSwal("Error", <<"Could not delete ", deletes[i].type, ". ",
                                           "${err.message || ''}">>)
          /\ deletes' = RemoveAt(deletes, i)
    /\ prompt' = <<>>
    /\ delEvent' = [name |-> "handleDelete.catch", fired |-> 1]
    /\ UNCHANGED <<delType, resourceId, selectedId, delEffectPending, enumerations,
                   delActions>>
    /\ UNCHANGED notDelete

\* fetchIds after an await of its loop: gather the ids of the page, ask for
\* the next page, or set the list and reset the selection.
fetchIds_resolved ==
    /\ \E x \in 1..Len(enumerations), res \in Responses :
          /\ res.ok /\ res.hasData
          /\ LET type == enumerations[x].type
                 d == DrainAfter(enumerations[x].drain,
                                 IF type = "habitats" THEN "/habitats" ELSE "/species", res)
             IN  IF d.status = "awaiting"
                 THEN /\ enumerations' = [enumerations EXCEPT ![x].drain = d]
                      /\ UNCHANGED <<resourceId, selectedId>>
                 ELSE /\ enumerations' = RemoveAt(enumerations, x)
                      /\ resourceId' = d.all
                      /\ selectedId' = <<>>
    /\ delEvent' = [name |-> "fetchIds", fired |-> 0]
    /\ UNCHANGED <<delType, delEffectPending, prompt, deletes, delSwal, delActions>>
    /\ UNCHANGED notDelete

\* fetchIds in its catch: the request failed, or the body has no data to map.
fetchIds_rejected ==
    /\ \E x \in 1..Len(enumerations), res \in Responses :
          /\ ~(res.ok /\ res.hasData)
          /\ delSwal' = DelSwal("Error", <<"Could not load ", enumerations[x].type, " IDs">>)
          /\ enumerations' = RemoveAt(enumerations, x)
    /\ prompt' = <<>>
    /\ delEvent' = [name |-> "fetchIds.catch", fired |-> 1]
    /\ UNCHANGED <<delType, resourceId, selectedId, delEffectPending, deletes, delActions>>
    /\ UNCHANGED notDelete

DeleteNext ==
    \/ useEffect_delType
    \/ setDeleteType
    \/ setSelectedId
    \/ handleDelete
    \/ handleDelete_confirmed
    \/ handleDelete_cancelled
    \/ handleDelete_resolved
    \/ handleDelete_rejected
    \/ fetchIds_resolved
    \/ fetchIds_rejected

\* ------------------------------------------ one drain, with its history

\* The loops that drain a collection: fetchAllIds of the create form over its
\* three endpoints, fetchIds of the delete tool over its two.
DrainCalls ==
    [caller : {"fetchAllIds"}, endpoint : DropdownEndpoints]
    \cup [caller : {"fetchIds"}, endpoint : {"/habitats", "/species"}]
    \cup [caller : {"fetchHabitatsId"}, endpoint : {"/habitats"}]

\* The server's answers to a request of a drain: a failure, or n rows and the
\* total_pages it reports with them (0: none).
DrainResponses ==
    [ok : {FALSE}, hasData : {FALSE}, n : {0}, total_pages : {0}]
    \cup [ok : {TRUE}, hasData : {TRUE}, n : 0..MaxRows, total_pages : 0..MaxDrainPages]

\* The call: page = 1, the list empty, and the first request sent.
DrainInit ==
    /\ \E c \in DrainCalls :
          drainCall = [caller |-> c.caller, endpoint |-> c.endpoint,
                       drain |-> Drain("awaiting", 1, <<>>)]
    /\ drainAsked = <<1>>
    /\ drainAnswered = <<>>

DrainOff ==
    /\ drainCall = [caller |-> "none", endpoint |-> "none", drain |-> Drain("done", 1, <<>>)]
    /\ drainAsked = <<>>
    /\ drainAnswered = <<>>

\* The loop after its await: the page is gathered, and the next page is
\* requested or the loop is left.
drain_resolved ==
    /\ drainCall.drain.status = "awaiting"
    /\ \E res \in DrainResponses :
          /\ res.ok /\ res.hasData
          /\ LET d == DrainAfter(drainCall.drain, drainCall.endpoint, res)
             IN  /\ drainCall' = [drainCall EXCEPT !.drain = d]
                 /\ drainAsked' = IF d.status = "awaiting" THEN Append(drainAsked, d.page)
                                  ELSE drainAsked
          /\ drainAnswered' = Append(drainAnswered, res)
    /\ UNCHANGED notDrain

\* The awaited request fails: the loop is left by the throw.
drain_rejected ==
    /\ drainCall.drain.status = "awaiting"
    /\ \E res \in DrainResponses :
          /\ ~(res.ok /\ res.hasData)
          /\ drainAnswered' = Append(drainAnswered, res)
    /\ drainCall' = [drainCall EXCEPT !.drain = Drain("failed", drainCall.drain.page, <<>>)]
    /\ UNCHANGED drainAsked
    /\ UNCHANGED notDrain

DrainNext ==
    \/ drain_resolved
    \/ drain_rejected

\* ------------------------------------------------------ the specifications

InitList == ListInit /\ PagOff /\ CodecOff /\ CreateOff /\ DeleteOff /\ DrainOff

SpecList == InitList /\ [][ListNext]_vars

InitCreate == CreateInit /\ PagOff /\ CodecOff /\ ListOff /\ DeleteOff /\ DrainOff

SpecCreate == InitCreate /\ [][CreateNext]_vars

InitDelete == DeleteInit /\ PagOff /\ CodecOff /\ ListOff /\ CreateOff /\ DrainOff

SpecDelete == InitDelete /\ [][DeleteNext]_vars

InitDrain == DrainInit /\ PagOff /\ CodecOff /\ ListOff /\ CreateOff /\ DeleteOff

SpecDrain == InitDrain /\ [][DrainNext]_vars

\* Every awaited request is settled: fetch resolves or rejects.
SpecDrainLive == SpecDrain /\ WF_vars(DrainNext)

\* The router mounts one page at a time: a list view, the create form or the
\* delete tool.
InitApp == InitList \/ InitCreate \/ InitDelete

AppNext ==
    \/ (view # "none" /\ ListNext)
    \/ (resourceType # "none" /\ CreateNext)
    \/ (delType # "none" /\ DeleteNext)

SpecApp == InitApp /\ [][AppNext]_vars

InitCodec == CodecInit /\ PagOff /\ ListOff /\ CreateOff /\ DeleteOff /\ DrainOff

SpecCodec == InitCodec /\ [][CodecNext]_vars

InitPagination == PagInit /\ CodecOff /\ ListOff /\ CreateOff /\ DeleteOff /\ DrainOff

SpecPagination == InitPagination /\ [][PagNext]_vars

\* ================================================================== claims

\* ---- the Pagination component (SpecPagination)

IsRun(labels) == \A k \in 1..Len(labels) : labels[k] = labels[1] + k - 1

InLabels(n, labels) == \E k \in 1..Len(labels) : labels[k] = n

\* C3: for page >= 1, totalPages >= 1 and visiblePages >= 1 the component
\* emits exactly min(visiblePages, totalPages) numbered buttons.
C3_ButtonCount ==
    props.page >= 1 =>
        Len(Labels(items)) = Min(props.visiblePages, props.totalPages)

C3_Witness ==
    /\ props = [page |-> 6, totalPages |-> 4, visiblePages |-> 5]
    /\ Labels(items) = <<1, 2, 3, 4>>

\* C4 as claimed: whenever visiblePages <= totalPages (any page >= 1) the
\* numbered buttons are a contiguous ascending run of exactly visiblePages
\* numbers that contains page.
C4_Original ==
    (props.page >= 1 /\ props.visiblePages <= props.totalPages) =>
        /\ Len(Labels(items)) = props.visiblePages
        /\ IsRun(Labels(items))
        /\ InLabels(props.page, Labels(items))

\* C4 amended: the same, for a page that exists (1 <= page <= totalPages).
C4_Centred ==
    (/\ props.page >= 1
     /\ props.page <= props.totalPages
     /\ props.visiblePages <= props.totalPages) =>
        /\ Len(Labels(items)) = props.visiblePages
        /\ IsRun(Labels(items))
        /\ InLabels(props.page, Labels(items))

C4_Witness ==
    /\ props = [page |-> 5, totalPages |-> 6, visiblePages |-> 4]
    /\ Labels(items) = <<3, 4, 5, 6>>

\* C5: every numbered label lies in 1..totalPages, and when the unclamped
\* window (start = max(1, page - floor(visiblePages/2)), end = start +
\* visiblePages - 1) runs past totalPages, the last label is totalPages and the
\* first is max(1, totalPages - visiblePages + 1).
C5_Clamped ==
    LET labels == Labels(items)
        start == Max(1, props.page - (props.visiblePages \div 2))
        end == start + props.visiblePages - 1
    IN  /\ \A k \in 1..Len(labels) : labels[k] \in 1..props.totalPages
        /\ end > props.totalPages =>
              /\ Len(labels) >= 1
              /\ labels[Len(labels)] = props.totalPages
              /\ labels[1] = Max(1, props.totalPages - props.visiblePages + 1)

C5_Witness ==
    /\ props = [page |-> 6, totalPages |-> 6, visiblePages |-> 5]
    /\ Labels(items) = <<2, 3, 4, 5, 6>>

\* C6: a Previous button is emitted iff page > 1, a Next button iff page <
\* totalPages, a numbered button is marked current iff its label is page, and
\* a click on Previous, Next or a number requests page - 1, page + 1 or that
\* number.
C6_Affordances ==
    /\ HasKey(items, "prev") <=> props.page > 1
    /\ HasKey(items, "next") <=> props.page < props.totalPages
    /\ \A k \in 1..Len(items) :
          /\ items[k].key = "num" =>
                /\ items[k].active <=> items[k].label = props.page
                /\ items[k].onClick = items[k].label
          /\ items[k].key = "prev" => items[k].onClick = props.page - 1
          /\ items[k].key = "next" => items[k].onClick = props.page + 1
    /\ requested # <<>> =>
          \/ HasKey(items, "prev") /\ requested = <<props.page - 1>>
          \/ HasKey(items, "next") /\ requested = <<props.page + 1>>
          \/ InLabels(requested[1], Labels(items))

C6_Witness ==
    /\ props = [page |-> 3, totalPages |-> 5, visiblePages |-> 2]
    /\ HasKey(items, "prev")
    /\ HasKey(items, "next")
    /\ requested = <<4>>

\* C7 as claimed: with totalPages = 1, for every page >= 1, the window is
\* exactly [1] and neither Previous nor Next is emitted.
C7_Original ==
    (props.totalPages = 1 /\ props.page >= 1) =>
        /\ Labels(items) = <<1>>
        /\ ~HasKey(items, "prev")
        /\ ~HasKey(items, "next")

\* C7 amended: with totalPages = 1, for every page >= 1, the window is exactly
\* [1] and Next is never emitted; Previous is emitted exactly when page > 1.
C7_SinglePage ==
    (props.totalPages = 1 /\ props.page >= 1) =>
        /\ Labels(items) = <<1>>
        /\ ~HasKey(items, "next")
        /\ HasKey(items, "prev") <=> props.page > 1

C7_Witness ==
    /\ props = [page |-> 3, totalPages |-> 1, visiblePages |-> 5]
    /\ Labels(items) = <<1>>
    /\ HasKey(items, "prev")

\* ---- the URL query-state codec (SpecCodec)

\* C2: for every valid PageState s (page >= 1, pageSize in {5, 10, 20}, any
\* filter field and filter value, either possibly empty), decoding the query
\* string updateURL(s) produces gives back the page, pageSize, filter field and
\* filter value of s.
C2_RoundTrip ==
    decoded # <<>> =>
        /\ decoded[1].page = pageState.page
        /\ decoded[1].pageSize = pageState.pageSize
        /\ decoded[1].filter = pageState.filter
        /\ decoded[1].name = pageState.name

C2_Witness ==
    /\ pageState = [page |-> 10, pageSize |-> 20,
                    filter |-> <<"a", "=", "b">>, name |-> <<"+", " ">>]
    /\ decoded = <<pageState>>

\* ---- the list views: what a handler does to the URL and to the requests

\* The step taken is the callback `name`, run on the user's action.
UserStep(name) == event'.name = name /\ userActions' = userActions + 1

\* A character of the allow-list: a letter, a digit, white space, the hyphen,
\* the apostrophe.
Allowed(c) == IsAlnum(c) \/ IsSpace(c) \/ c = "-" \/ c = "'"

\* A search term the gate is to turn away: blank, or with a character outside
\* the allow-list.
Rejected(term) == Trim(term) = <<>> \/ \E k \in 1..Len(term) : ~Allowed(term[k])

\* C1 (as the spec states it): in the three list views a user action that
\* changes what is shown (an accepted search submit, clear, a page click, a
\* page-size change, a habitat selection) writes the state it asks for to the
\* URL, and no handler of the user starts a request itself: the number of
\* awaited requests grows only in the step of the effect on location.search.
C1_Original ==
    [][ /\ (Len(inflight') > Len(inflight)) => (event'.name = "useEffect")
        /\ UserStep("handlePageChange") =>
              NumberOr(parseInt(get(URLSearchParams(search'), K_page)), 1) = event'.num
        /\ UserStep("handlePageSizeChange") =>
              /\ NumberOr(parseInt(get(URLSearchParams(search'), K_pageSize)), 5) = event'.num
              /\ NumberOr(parseInt(get(URLSearchParams(search'), K_page)), 1) = 1
        /\ UserStep("handleClearSearch") =>
              /\ DecodeSearch(search').name = <<>>
              /\ DecodeSearch(search').filter = <<>>
              /\ DecodeSearch(search').page = 1
        /\ (UserStep("handleSearchSubmit") /\ ~Rejected(searchName)) =>
              /\ DecodeSearch(search').name = searchName
              /\ DecodeSearch(search').filter = filter
              /\ DecodeSearch(search').page = 1
        /\ UserStep("handleHabitatChange") =>
              StringOr(get(URLSearchParams(search'), K_habitat)) = event'.str
      ]_vars

\* C8: in the species and habitats views a search submit whose term is blank
\* or has a character outside letters, digits, white space, hyphen and
\* apostrophe writes nothing to the URL, starts no request, and leaves page,
\* pageSize, filter, the search term and the rows as they were; it shows a
\* notice and nothing else.
C8_Gate ==
    [][ (IsTable /\ UserStep("handleSearchSubmit") /\ Rejected(searchName)) =>
            /\ search' = search
            /\ effectPending' = effectPending
            /\ inflight' = inflight
            /\ page' = page
            /\ pageSize' = pageSize
            /\ totalPages' = totalPages
            /\ filter' = filter
            /\ searchName' = searchName
            /\ list' = list
            /\ swal'.title \in {"Error", "Info", "Invalid input"}
      ]_vars

\* C8's case: rows are shown, and the submit of a term with "!" has been
\* turned away with the notice.
C8_Witness ==
    /\ IsTable
    /\ event.name = "handleSearchSubmit"
    /\ event.str = <<"a", "!">>
    /\ swal.title = "Invalid input"
    /\ list # <<>>
    /\ inflight = <<>>

\* ---- the create-resource form: validation and the duplicate notice

\* PREFIX-###, the letters in either case: two letters, a hyphen, three digits.
C9_IsId(letters, v) ==
    /\ Len(v) = 6
    /\ ToUpperChar(v[1]) = letters[1] /\ ToUpperChar(v[2]) = letters[2]
    /\ v[3] = "-"
    /\ \A k \in 4..6 : IsDigit(v[k])

\* "30E to 45W": digits and a letter of the pair, " to ", digits and a letter
\* of the pair, in either case.
C9_IsRange(letters, v) ==
    \E a \in 1..Len(v), b \in 1..Len(v) :
        /\ a + 6 <= b /\ b + 1 = Len(v)
        /\ \A k \in (1..a) \cup ((a + 6)..b) : IsDigit(v[k])
        /\ ToUpperChar(v[a + 1]) \in letters /\ ToUpperChar(v[b + 1]) \in letters
        /\ v[a + 2] = " " /\ ToUpperChar(v[a + 3]) = "T"
        /\ ToUpperChar(v[a + 4]) = "O" /\ v[a + 5] = " "

\* The field holds a value that is not blank and, white space around it set
\* aside, passes the rule of the field.
C9_FieldOk(name, data) ==
    /\ name \in DOMAIN data
    /\ LET v == Trim(data[name])
       IN  /\ v # <<>>
           /\ CASE name = "habitat_id" -> C9_IsId(<<"H", "A">>, v)
                [] name = "species_id" -> C9_IsId(<<"S", "P">>, v)
                [] name = "diet_id" -> C9_IsId(<<"D", "I">>, v)
                [] name = "classification_id" -> C9_IsId(<<"C", "L">>, v)
                [] name = "climate" -> \A k \in 1..Len(v) : IsUpper(v[k]) \/ IsLower(v[k])
                [] name = "long_range" -> C9_IsRange({"E", "W"}, v)
                [] name = "lat_range" -> C9_IsRange({"N", "S"}, v)
                [] name = "description" -> Len(v) >= 10
                [] name \in {"common_name", "name_of_offspring"} -> Len(v) <= 255
                [] name \in {"group_behaviour", "gestation_period"} -> Len(v) <= 32
                [] name = "breeding_season" -> Len(v) <= 16
                [] name \in {"num_of_offspring", "average_lifespan"} ->
                      \A k \in 1..Len(v) : IsDigit(v[k])
                [] OTHER -> TRUE

\* C9: a POST is issued only by a submit of a form of which every field of
\* the selected schema is non-empty and passes its rule; a submit of a form
\* with a failing field sends nothing, and the error set then holds a message
\* for every failing field of the schema and for no other.
C9_Validated ==
    [][ /\ (Len(posts') > Len(posts)) =>
              /\ createEvent'.name = "handleSubmit"
              /\ \A name \in FieldNames(resourceType) : C9_FieldOk(name, formData)
              /\ posts'[Len(posts')].body[1] = parsedData(resourceType, formData)
        /\ (/\ createEvent'.name = "handleSubmit"
            /\ formActions' = formActions + 1
            /\ \E name \in FieldNames(resourceType) : ~C9_FieldOk(name, formData)) =>
              /\ posts' = posts
              /\ \A name \in FieldNames(resourceType) :
                    IF C9_FieldOk(name, formData)
                    THEN name \notin DOMAIN errors'
                    ELSE name \in DOMAIN errors' /\ errors'[name] # ""
      ]_vars

\* C9's case: a habitat form with a malformed id and the rest empty has been
\* submitted; nothing was sent, and the id's message stands beside the
\* messages of the empty fields.
C9_Witness ==
    /\ createEvent.name = "handleSubmit"
    /\ posts = <<>>
    /\ resourceType = "habitat"
    /\ DOMAIN errors = FieldNames("habitat")
    /\ errors["habitat_id"] = "Habitat ID must be in the format HA-###"
    /\ errors["name"] = "This field is required"

\* The failure is a response whose body is an object with the number 23000
\* for its code.
C10_IsDuplicate(failure) ==
    /\ failure.kind = "http"
    /\ failure.body.t = "object"
    /\ failure.body.code.t = "number"
    /\ failure.body.code.v = 23000

\* C10: a create request rejected with details whose code is 23000 shows the
\* 'Duplicate ID' notice, naming the id of the details; every other failure
\* shows the 'Error' notice; the catch leaves the form data as it is.
C10_Catch ==
    [][ (createEvent'.name = "handleSubmit.catch") =>
            /\ IF C10_IsDuplicate(createEvent'.failure[1])
               THEN /\ createSwal'.title = "Duplicate ID"
                    /\ createEvent'.failure[1].body.id.t = "string" =>
                          createSwal'.text[2] = createEvent'.failure[1].body.id.v
               ELSE createSwal'.title = "Error"
            /\ formData' = formData
      ]_vars

\* C10's case: the valid habitat was submitted, the server answered with
\* code 23000 and id HA-001, and the notice names HA-001 over the form still
\* filled in.
C10_Witness ==
    /\ createEvent.name = "handleSubmit.catch"
    /\ createSwal.title = "Duplicate ID"
    /\ createSwal.text = <<"A record with ID \"", "HA-001", "\" already exists.">>
    /\ formData = ValidHabitat

\* ---- the delete tool: the gates and the refresh

\* The id has the format of the resource type: HA-### for habitats, SP-### for
\* species, # a digit.
C11_Format(type, id) ==
    /\ Len(id) = 6
    /\ id[1] = (IF type = "habitats" THEN "H" ELSE "S")
    /\ id[2] = (IF type = "habitats" THEN "A" ELSE "P")
    /\ id[3] = "-"
    /\ \A k \in 4..6 : IsDigit(id[k])

\* C11: a DELETE is issued only by the confirmation of a prompt; a prompt is
\* opened only by a click on Delete with a selected id that is not empty and
\* has the format of the selected type, and it is the prompt for that type and
\* id; a click that fails a gate, and a cancelled prompt, send nothing and
\* leave the ID list and the selection as they were.
C11_Gates ==
    [][ /\ (Len(deletes') > Len(deletes)) =>
              /\ delEvent'.name = "handleDelete.confirmed"
              /\ prompt # <<>>
              /\ deletes' = Append(deletes, deletes'[Len(deletes')])
              /\ deletes'[Len(deletes')].id = prompt[1].id
              /\ deletes'[Len(deletes')].type = prompt[1].type
        /\ (prompt' # <<>> /\ prompt' # prompt) =>
              /\ delEvent'.name = "handleDelete"
              /\ selectedId # <<>>
              /\ C11_Format(delType, selectedId)
              /\ prompt' = <<[type |-> delType, id |-> selectedId]>>
        /\ (/\ delEvent'.name = "handleDelete"
            /\ delActions' = delActions + 1
            /\ (selectedId = <<>> \/ ~C11_Format(delType, selectedId))) =>
              /\ prompt' = <<>>
              /\ deletes' = deletes
              /\ enumerations' = enumerations
              /\ resourceId' = resourceId
              /\ selectedId' = selectedId
        /\ (delEvent'.name = "handleDelete.cancelled") =>
              /\ deletes' = deletes
              /\ enumerations' = enumerations
              /\ resourceId' = resourceId
              /\ selectedId' = selectedId
      ]_vars

\* C11's case: the species type is selected over a habitat id left from the
\* habitats list, Delete was clicked, and the format notice is up with nothing
\* sent and the selection kept.
C11_Witness ==
    /\ delEvent.name = "handleDelete"
    /\ delType = "species"
    /\ selectedId = <<"H", "A", "-", "0", "0", "1">>
    /\ delSwal.title = "Invalid ID Format"
    /\ prompt = <<>>
    /\ deletes = <<>>

\* C12: the step that completes a successful deletion starts one fresh
\* enumeration for the deleted type and leaves list and selection for it to
\* replace; the step that completes an enumeration sets the list to the ids it
\* gathered and the selection to empty; the step that completes a failed
\* deletion fires one 'Error' notice, starts no enumeration and no request,
\* and leaves the list, the selection and the type as they were, with no
\* prompt in the way of another click.
C12_Refresh ==
    [][ /\ (delEvent'.name = "handleDelete.then") =>
              /\ \E i \in 1..Len(deletes) :
                    /\ deletes' = RemoveAt(deletes, i)
                    /\ enumerations' =
                          Append(enumerations,
                                 [type |-> deletes[i].type,
                                  drain |-> [status |-> "awaiting", page |-> 1, all |-> <<>>]])
              /\ resourceId' = resourceId
              /\ selectedId' = selectedId
        /\ (delEvent'.name = "fetchIds" /\ Len(enumerations') < Len(enumerations)) =>
              /\ selectedId' = <<>>
              /\ \E x \in 1..Len(enumerations) :
                    /\ enumerations' = RemoveAt(enumerations, x)
                    /\ Len(resourceId') >= Len(enumerations[x].drain.all)
                    /\ SubSeq(resourceId', 1, Len(enumerations[x].drain.all))
                          = enumerations[x].drain.all
        /\ (delEvent'.name = "handleDelete.catch") =>
              /\ delEvent'.fired = 1
              /\ delSwal'.title = "Error"
              /\ Len(deletes') = Len(deletes) - 1
              /\ enumerations' = enumerations
              /\ resourceId' = resourceId
              /\ selectedId' = selectedId
              /\ delType' = delType
              /\ prompt' = <<>>
      ]_vars

\* C12's case: a confirmed deletion has succeeded, and the enumeration it
\* started has completed: the list is replaced and the selection is empty
\* under the 'Deleted!' notice.
C12_Witness ==
    /\ delEvent.name = "fetchIds"
    /\ delSwal.title = "Deleted!"
    /\ enumerations = <<>>
    /\ deletes = <<>>
    /\ resourceId # <<>>
    /\ selectedId = <<>>

\* ---- the exhaustive fetch

\* Every response received so far reported total_pages = n.
C13_Constant(n) ==
    /\ drainAnswered # <<>>
    /\ \A k \in 1..Len(drainAnswered) :
          drainAnswered[k].ok /\ drainAnswered[k].total_pages = n

\* The rows of the first k responses, page after page, each page in its order.
RECURSIVE C13_Concat(_)
C13_Concat(k) ==
    IF k = 0 THEN <<>>
    ELSE C13_Concat(k - 1)
         \o [j \in 1..drainAnswered[k].n |-> ServerId(drainCall.endpoint, k, j)]

\* C13: a drain that has returned, every response to it having reported the
\* same total_pages = N >= 1, has requested the pages 1, 2, ..., N, each once
\* and in that order, and has gathered the rows of the N responses in order,
\* none twice and none dropped.
C13_Drained ==
    \A n \in 1..MaxDrainPages :
        (drainCall.drain.status = "done" /\ C13_Constant(n)) =>
            /\ drainAsked = [k \in 1..n |-> k]
            /\ Len(drainAnswered) = n
            /\ drainCall.drain.all = C13_Concat(n)
            /\ \A a, b \in 1..Len(drainCall.drain.all) :
                  drainCall.drain.all[a] = drainCall.drain.all[b] => a = b

\* C13's case: a drain of three pages, a row on each, has returned.
C13_Witness ==
    /\ drainCall.drain.status = "done"
    /\ C13_Constant(3)
    /\ Len(drainCall.drain.all) = 3

\* The requests of the create form's drains that are in flight.
C14_InFlight ==
    {xe \in (1..Len(dropdownFetches)) \X DropdownEndpoints :
        dropdownFetches[xe[1]][xe[2]].status = "awaiting"}

C15_Blank(term) == \A k \in 1..Len(term) : IsSpace(term[k])

\* The request is an active search: it carries a filter field that is not
\* empty and a term that is not blank.
C15_ActiveSearch(req) ==
    /\ req.endPoint.query # <<>>
    /\ req.endPoint.query[1] # <<>>
    /\ ~C15_Blank(req.endPoint.query[2])

C16_ListCatches ==
    {"loadSpecies.catch", "loadHabitats.catch", "loadSubCollection.catch",
     "fetchHabitatsId.catch"}

\* The requests of the mounted page that are awaited.
C16_Awaited ==
    Len(inflight) + Len(posts) + Len(deletes) + Len(enumerations)

RECURSIVE C17_Value(_)
C17_Value(digits) ==
    IF digits = <<>> THEN 0
    ELSE 10 * C17_Value(SubSeq(digits, 1, Len(digits) - 1))
         + (CHOOSE v \in 0..9 : <<"0", "1", "2", "3", "4", "5", "6", "7", "8", "9">>[v + 1]
                                  = digits[Len(digits)])

\* The first value of the key in the query string of the address, <<>> if the
\* key is absent.
C17_Raw(key) == get(URLSearchParams(search), key)

\* The value is numeric: an optional sign and decimal digits, nothing else.
C17_Numeric(str) ==
    LET body == IF str # <<>> /\ Head(str) \in {"-", "+"} THEN Tail(str) ELSE str
    IN  body # <<>> /\ \A k \in 1..Len(body) : IsDigit(body[k])

C17_Number(str) ==
    IF Head(str) = "-" THEN 0 - C17_Value(Tail(str))
    ELSE IF Head(str) = "+" THEN C17_Value(Tail(str))
    ELSE C17_Value(str)

\* The number the claim has decoded for the key: the value when present and
\* numeric, the fallback otherwise.
C17_Stated(key, fallback) ==
    IF C17_Raw(key) # <<>> /\ C17_Numeric(C17_Raw(key)[1])
    THEN C17_Number(C17_Raw(key)[1])
    ELSE fallback

\* The integer that starts the value, after white space: an optional sign and
\* the longest run of digits; 0 when there is no digit there.
C17_Leading(str) ==
    LET from == IF \E k \in 1..Len(str) : ~IsSpace(str[k])
                THEN CHOOSE k \in 1..Len(str) :
                        ~IsSpace(str[k]) /\ \A j \in 1..(k - 1) : IsSpace(str[j])
                ELSE Len(str) + 1
        rest == SubSeq(str, from, Len(str))
        signed == rest # <<>> /\ Head(rest) \in {"-", "+"}
        body == IF signed THEN Tail(rest) ELSE rest
        n == CHOOSE k \in 0..Len(body) :
                /\ \A j \in 1..k : IsDigit(body[j])
                /\ (k < Len(body) => ~IsDigit(body[k + 1]))
        v == C17_Value(SubSeq(body, 1, n))
    IN  IF signed /\ Head(rest) = "-" THEN 0 - v ELSE v

\* The number the views decode for the key: the leading integer of the value
\* when the key is present and that integer is not 0, the fallback otherwise.
C17_Read(key, fallback) ==
    IF C17_Raw(key) # <<>> /\ C17_Leading(C17_Raw(key)[1]) # 0
    THEN C17_Leading(C17_Raw(key)[1])
    ELSE fallback

C17_Text(key) == IF C17_Raw(key) = <<>> THEN <<>> ELSE C17_Raw(key)[1]

\* The effect of the view has just decoded the address.
C17_Decoded == event.name = "useEffect" /\ view \in {"species", "habitats"}

C18_Original ==
    (view # "none") =>
        /\ page >= 1
        /\ \A k \in 1..Len(inflight) : inflight[k].endPoint.page >= 1

\* C19 as stated: in a mounted list view the page size held in state is 5, 10
\* or 20.
C19_Original == (view # "none") => (pageSize \in {5, 10, 20})

\* ---- a URL write and the load after it

\* The step is an accepted user action of a species or habitats view that
\* writes the URL.
C20_Writes ==
    /\ view \in {"species", "habitats"}
    /\ \/ UserStep("handlePageChange")
       \/ UserStep("handlePageSizeChange")
       \/ UserStep("handleClearSearch")
       \/ (UserStep("handleSearchSubmit") /\ ~Rejected(searchName))

\* C20 as stated: every such step leaves the effect on location.search due to
\* run, which is what loads the data for the written state; the query string
\* written may be the one the address already has.
C20_Original == [][ C20_Writes => effectPending' ]_vars

\* ---- the record and the errors of the create form

\* The two objects agree at the key: both lack it, or both have it with the
\* same value.
C21_Same(after, before, key) ==
    /\ (key \in DOMAIN after) <=> (key \in DOMAIN before)
    /\ (key \in DOMAIN before) => (after[key] = before[key])

C21_Names == FieldNames("habitat") \cup FieldNames("species")

\* C21: the step that completes a successful creation leaves the record
\* empty; a switch of the resource type leaves the record and the errors
\* empty; an edit of a field gives that field the empty error and leaves the
\* value and the error of every other field as they were.
C21_Frames ==
    [][ /\ (createEvent'.name = "handleSubmit.then" /\ posts' # posts) =>
              (DOMAIN formData' = {})
        /\ (createEvent'.name = "setResourceType" /\ formActions' = formActions + 1) =>
              (DOMAIN formData' = {} /\ DOMAIN errors' = {})
        /\ (createEvent'.name = "handleInputChange" /\ formActions' = formActions + 1) =>
              \E name \in FieldNames(resourceType) :
                  /\ name \in DOMAIN formData'
                  /\ name \in DOMAIN errors' /\ errors'[name] = ""
                  /\ \A other \in C21_Names \ {name} :
                        /\ C21_Same(formData', formData, other)
                        /\ C21_Same(errors', errors, other)
      ]_vars

\* C21's case: a field has been edited after a submit that failed validation:
\* its error is cleared and another field keeps its message.
C21_Witness ==
    /\ createEvent.name = "handleInputChange"
    /\ \E a, b \in DOMAIN errors : errors[a] = "" /\ errors[b] # ""
    /\ DOMAIN formData # {}

\* ---- what the completion of a fetch changes

C23_Current ==
    LET q == DecodeSearch(search)
    IN  LoadRequest(view, q.page, q.pageSize, q.name, q.filter).endPoint

\* C23 as stated, for a view in which the user has acted at most once, so that
\* every fetch was built from an address: when the address has been decoded,
\* nothing is awaited any more and the last fetch to complete succeeded, the
\* rows displayed are rows of the response to the request built from the
\* current address.
C23_Original ==
    (/\ view \in {"species", "habitats"}
     /\ userActions <= 1
     /\ ~effectPending
     /\ inflight = <<>>
     /\ event.name \in {"loadSpecies", "loadHabitats"}) =>
        \A k \in 1..Len(list) : list[k].of = C23_Current

\* ---- the allow-list and the URL

\* The term passes /^[A-Za-z0-9\s\-']+$/ .
C24_Passes(term) == term # <<>> /\ \A k \in 1..Len(term) : Allowed(term[k])

\* C24 as stated: in a species or habitats view whose address has no name
\* parameter, no action of the user writes an address whose name parameter is
\* a term that fails the allow-list.
C24_Original ==
    [][ (/\ view \in {"species", "habitats"}
         /\ get(URLSearchParams(search), K_name) = <<>>
         /\ userActions' = userActions + 1) =>
            LET name == get(URLSearchParams(search'), K_name)
            IN  name = <<>> \/ C24_Passes(name[1])
      ]_vars

\* ---- enumerations that complete out of order

\* C25 as stated: in the delete tool, when no enumeration is awaited or due,
\* none has failed (no dialog was ever fired) and the last step completed an
\* enumeration, every id of the list shown is an id of the selected resource
\* type.
C25_Original ==
    (/\ delType # "none"
     /\ ~delEffectPending
     /\ enumerations = <<>>
     /\ delEvent.name = "fetchIds"
     /\ delSwal.title = "") =>
        \A k \in 1..Len(resourceId) :
            SubSeq(resourceId[k], 1, 2)
               = (IF delType = "habitats" THEN <<"H", "A">> ELSE <<"S", "P">>)

\* ---- the DELETE requests

\* The six characters are the two letters, a hyphen and three digits.
C26_Id(letters, id) ==
    /\ Len(id) = 6
    /\ <<id[1], id[2]>> = letters
    /\ id[3] = "-"
    /\ \A k \in {4, 5, 6} : IsDigit(id[k])

\* C26: every DELETE awaited is a request to /habitats whose payload names
\* habitat_id with a value HA-###, or a request to /species whose payload
\* names species_id with a value SP-###.
C26_Payload ==
    \A k \in 1..Len(deletes) :
        \/ /\ deletes[k].endpoint = "/habitats"
           /\ deletes[k].key = "habitat_id"
           /\ C26_Id(<<"H", "A">>, deletes[k].id)
        \/ /\ deletes[k].endpoint = "/species"
           /\ deletes[k].key = "species_id"
           /\ C26_Id(<<"S", "P">>, deletes[k].id)

\* C26's case: after a switch of the type to species and the enumeration of
\* the species, a DELETE of a species is awaited.
C26_Witness ==
    /\ deletes # <<>>
    /\ deletes[1].endpoint = "/species"
    /\ delType = "species"

\* ---- a species is posted only with its dropdowns populated

\* C27: whenever a POST to /species is awaited, a population of the three
\* dropdown lists has completed before.
C27_Populated ==
    \A k \in 1..Len(posts) : (posts[k].endpoint = "/species") => populated

\* C27's case: the species form was submitted with its typed fields filled in
\* while no population had completed: the dropdown fields are reported as
\* required and nothing is posted.
C27_Witness ==
    /\ createEvent.name = "handleSubmit"
    /\ resourceType = "species"
    /\ ~populated
    /\ posts = <<>>
    /\ DOMAIN errors = DropdownFields

\* ---- a drain that fails publishes nothing

\* The three dropdown lists of the create form.
C28_Lists == <<dietsIds, habitatIds, classificationIds>>

\* The calls of fetchDropdownData in progress none of whose drains has failed.
C28_Sound ==
    {x \in 1..Len(dropdownFetches) :
        \A f \in DropdownEndpoints : dropdownFetches[x][f].status # "failed"}

\* C28: the catch of fetchIds leaves the ID list and the selection as they
\* were; the catch of fetchDropdownData leaves the three dropdown lists as they
\* were; while every call of fetchDropdownData in progress has a failed drain,
\* no step changes any of the three lists; and a step that changes one of the
\* lists is the last response of a call none of whose drains failed, after
\* which the lists are the results of that call's drains.
C28_NoPartial ==
    [][ /\ (delEvent'.name = "fetchIds.catch") => UNCHANGED <<resourceId, selectedId>>
        /\ (createEvent'.name = "fetchAllIds.catch") => UNCHANGED C28_Lists
        /\ (dropdownFetches # <<>> /\ C28_Sound = {}) => UNCHANGED C28_Lists
        /\ (C28_Lists' # C28_Lists) =>
              /\ createEvent'.name = "fetchAllIds"
              /\ Len(dropdownFetches') < Len(dropdownFetches)
              /\ \E x \in C28_Sound :
                    \A f \in DropdownEndpoints :
                       LET now == CASE f = "/diets" -> dietsIds'
                                    [] f = "/habitats" -> habitatIds'
                                    [] OTHER -> classificationIds'
                       IN  dropdownFetches[x][f].status = "done" =>
                              now = dropdownFetches[x][f].all
      ]_vars

\* C28's case: a call of fetchDropdownData is over, one of its drains failed
\* and the last response received was a successful one that ended another
\* drain; the three lists are still empty.
C28_Witness ==
    /\ resourceType = "species"
    /\ createSwal.title = "Error"
    /\ createEvent.name = "fetchAllIds"
    /\ dropdownFetches = <<>>
    /\ C28_Lists = <<<<>>, <<>>, <<>>>>

\* ---- the drain stops

\* The responses received so far each reported a total_pages at or above the
\* page the loop counted to after it.
C29_KeepsUp(k) ==
    \A i \in 1..k :
        /\ drainAnswered[i].ok /\ drainAnswered[i].hasData
        /\ drainAnswered[i].total_pages >= i + 1

\* The loop's requests: page 1 first, then page by page; it awaits a request
\* exactly while every response kept up with the page counter; once it has
\* returned it has sent as many requests as it received responses, the last
\* response being the first whose total_pages was below the next page; a
\* first response with total_pages missing or 0 made it one request, and
\* responses all with total_pages = n made it n requests.
C29_Stops ==
    LET k == Len(drainAnswered)
        d == drainCall.drain
    IN  /\ Len(drainAsked) >= 1
        /\ drainAsked = [i \in 1..Len(drainAsked) |-> i]
        /\ (d.status = "awaiting") <=> C29_KeepsUp(k)
        /\ (d.status = "awaiting") => Len(drainAsked) = k + 1
        /\ (d.status # "awaiting") =>
              /\ k >= 1
              /\ Len(drainAsked) = k
              /\ C29_KeepsUp(k - 1)
        /\ (d.status = "done") => drainAnswered[k].total_pages < k + 1
        /\ (k >= 1 /\ drainAnswered[1].ok /\ drainAnswered[1].total_pages = 0) =>
              (d.status = "done" /\ drainAsked = <<1>>)
        /\ \A n \in 1..MaxDrainPages :
              (d.status = "done" /\ \A i \in 1..k : drainAnswered[i].total_pages = n) =>
                 Len(drainAsked) = n

\* C29: the loop sends at least one request, stops where C29_Stops says, and
\* with every request settled and the reported total_pages bounded it returns
\* or throws.
C29_Terminates ==
    /\ []C29_Stops
    /\ <>(drainCall.drain.status # "awaiting")

\* C29's case: the server reported three pages, then two: the loop returned
\* after its second request.
C29_Witness ==
    /\ drainCall.drain.status = "done"
    /\ Len(drainAnswered) = 2
    /\ drainAnswered[1].total_pages = 3
    /\ drainAnswered[2].total_pages = 2
    /\ drainAsked = <<1, 2>>

\* ---- the requests of the species-within-habitat view

\* C30 as stated: every request to /habitats/{id}/species awaited carries a
\* habitat id that is not empty.
C30_Original ==
    \A k \in 1..Len(inflight) :
        (inflight[k].caller = "loadSubCollection") => (inflight[k].endPoint.id # <<>>)

====
